---------------------------- MODULE Spec2Model ----------------------------
(***************************************************************************)
(* HardGate agent: gate validation and scoring engine, security/compliance *)
(* aggregation and report assembly (agent/hardgate_agent/tools).           *)
(*                                                                         *)
(* The tools are stateless objects; the state of the system is the         *)
(* repository tree on disk, the report files written so far, the results   *)
(* the workflow has accumulated (analysis_data) and the record of the most *)
(* recent call (last).                                                     *)
(*                                                                         *)
(* Python floats are modelled as exact rationals <<n, d>> in lowest terms  *)
(* with d > 0.  IEEE-754 rounding of the intermediate quotient is not      *)
(* modelled; round(x, 2) is modelled by Round2.                            *)
(*                                                                         *)
(* The optional CodeGates package (gates.utils.hard_gates) is not part of  *)
(* the repository, so its import fails and CODEGATES_AVAILABLE is False:   *)
(* validation always takes the pattern-matching path.                      *)
(***************************************************************************)
EXTENDS Integers, Sequences, FiniteSets, TLC

VARIABLES fs, written, analysis_data, last

vars == <<fs, written, analysis_data, last>>

-----------------------------------------------------------------------------
(* Bounds *)

MaxEvidence == 6

MaxFilesAnalyzed == 4

-----------------------------------------------------------------------------
(* Exact rational arithmetic standing in for Python float arithmetic *)

Max(a, b) == IF a >= b THEN a ELSE b

Min(a, b) == IF a <= b THEN a ELSE b

RECURSIVE GCD(_, _)
GCD(a, b) == IF b = 0 THEN a ELSE GCD(b, a % b)

Rat(n, d) ==
    LET s == IF d < 0 THEN -1 ELSE 1
        Abs(x) == IF x < 0 THEN -x ELSE x
        g == GCD(Abs(n), Abs(d))
    IN  <<(s * n) \div g, (s * d) \div g>>

FromInt(n) == <<n, 1>>

RMul(a, b) == Rat(a[1] * b[1], a[2] * b[2])

RAdd(a, b) == Rat(a[1] * b[2] + b[1] * a[2], a[2] * b[2])

RSub(a, b) == Rat(a[1] * b[2] - b[1] * a[2], a[2] * b[2])

RDiv(a, b) == Rat(a[1] * b[2], a[2] * b[1])

RLe(a, b) == a[1] * b[2] <= b[1] * a[2]

RGe(a, b) == RLe(b, a)

RGt(a, b) == b[1] * a[2] < a[1] * b[2]

RMin(a, b) == IF RLe(a, b) THEN a ELSE b

RMax(a, b) == IF RGe(a, b) THEN a ELSE b

R0 == FromInt(0)

R100 == FromInt(100)

-----------------------------------------------------------------------------
(* Gate catalog *)

\* A gate identifier that is not a string (for instance an integer): it is
\* hashable, equals no catalog key, and has no .replace method.
NonStringGate == "<non-string gate id>"

IsStr(gate_name) == gate_name # NonStringGate

GetDefaultGates ==
    << "STRUCTURED_LOGS", "AVOID_LOGGING_SECRETS", "AUDIT_TRAIL",
       "CORRELATION_ID", "LOG_API_CALLS", "CLIENT_UI_ERRORS", "RETRY_LOGIC",
       "TIMEOUT_IO", "THROTTLING", "CIRCUIT_BREAKERS", "HTTP_ERROR_CODES",
       "URL_MONITORING", "AUTOMATED_TESTS", "AUTO_SCALE",
       "ALERTING_ACTIONABLE" >>

-----------------------------------------------------------------------------
(* Gate scorer *)

\* the scorer without the cap at 100 on the base score
CalculateGateScoreUncapped(patterns_found, files_analyzed, gate_name) ==
    IF files_analyzed = 0 THEN R0
    ELSE RMul(Rat(patterns_found, Max(1, files_analyzed)), R100)

\* the scorer without the early return for files_analyzed = 0
CalculateGateScoreNoZeroGuard(patterns_found, files_analyzed, gate_name) ==
    LET base_score ==
            RMin(R100, RMul(Rat(patterns_found, Max(1, files_analyzed)), R100))
    IN  IF gate_name = "AVOID_LOGGING_SECRETS"
        THEN RMax(R0, RSub(R100, base_score))
        ELSE base_score

\* the scorer with the test gate weighted once instead of twice
CalculateGateScoreSingleWeight(patterns_found, files_analyzed, gate_name) ==
    IF files_analyzed = 0 THEN R0
    ELSE
      LET base_score ==
              RMin(R100, RMul(Rat(patterns_found, Max(1, files_analyzed)), R100))
      IN  IF gate_name = "STRUCTURED_LOGS"
          THEN RMin(R100, RMul(base_score, Rat(3, 2)))
          ELSE IF gate_name = "AVOID_LOGGING_SECRETS"
          THEN RMax(R0, RSub(R100, base_score))
          ELSE base_score

\* the scorer with the secrets gate scored like any other gate (not inverted)
CalculateGateScoreNotInverted(patterns_found, files_analyzed, gate_name) ==
    IF files_analyzed = 0 THEN R0
    ELSE
      LET base_score ==
              RMin(R100, RMul(Rat(patterns_found, Max(1, files_analyzed)), R100))
      IN  IF gate_name = "AUTOMATED_TESTS"
          THEN RMin(R100, RMul(Rat(patterns_found, files_analyzed), FromInt(200)))
          ELSE IF gate_name = "STRUCTURED_LOGS"
          THEN RMin(R100, RMul(base_score, Rat(3, 2)))
          ELSE base_score

\* the scorer with the logging gate left at its base score
CalculateGateScoreLogsUnweighted(patterns_found, files_analyzed, gate_name) ==
    IF files_analyzed = 0 THEN R0
    ELSE
      LET base_score ==
              RMin(R100, RMul(Rat(patterns_found, Max(1, files_analyzed)), R100))
      IN  IF gate_name = "AUTOMATED_TESTS"
          THEN RMin(R100, RMul(Rat(patterns_found, files_analyzed), FromInt(200)))
          ELSE IF gate_name = "AVOID_LOGGING_SECRETS"
          THEN RMax(R0, RSub(R100, base_score))
          ELSE base_score

CalculateGateScore(patterns_found, files_analyzed, gate_name) ==
    IF files_analyzed = 0 THEN R0
    ELSE
      LET base_score ==
              RMin(R100, RMul(Rat(patterns_found, Max(1, files_analyzed)), R100))
      IN  IF gate_name = "AUTOMATED_TESTS"
          THEN LET test_files == patterns_found
                   total_files == files_analyzed
               IN  IF total_files > 0
                   THEN RMin(R100, RMul(Rat(test_files, total_files), FromInt(200)))
                   ELSE base_score
          ELSE IF gate_name = "STRUCTURED_LOGS"
          THEN RMin(R100, RMul(base_score, Rat(3, 2)))
          ELSE IF gate_name = "AVOID_LOGGING_SECRETS"
          THEN RMax(R0, RSub(R100, base_score))
          ELSE base_score

\* the status function with exclusive thresholds
DetermineGateStatusExclusive(score, patterns_found) ==
    IF RGt(score, FromInt(80)) THEN "PASS"
    ELSE IF RGt(score, FromInt(50)) THEN "WARNING"
    ELSE IF patterns_found = 0 THEN "NOT_APPLICABLE"
    ELSE "FAIL"

DetermineGateStatusNoEvidenceFirst(score, patterns_found) ==
    IF patterns_found = 0 THEN "NOT_APPLICABLE"
    ELSE IF RGe(score, FromInt(80)) THEN "PASS"
    ELSE IF RGe(score, FromInt(50)) THEN "WARNING"
    ELSE "FAIL"

DetermineGateStatus(score, patterns_found) ==
    IF RGe(score, FromInt(80)) THEN "PASS"
    ELSE IF RGe(score, FromInt(50)) THEN "WARNING"
    ELSE IF patterns_found = 0 THEN "NOT_APPLICABLE"
    ELSE "FAIL"

NoCall == [op |-> "none"]

-----------------------------------------------------------------------------
(* Dictionaries *)

\* {}
EmptyDict == [k \in {} |-> 0]

\* "key in d"
Has(d, key) == key \in DOMAIN d

\* d.get(key, default)
Get(d, key, default) == IF Has(d, key) THEN d[key] ELSE default

\* the entry a guarded assignment d[key] = value adds
Entry(cond, key, value) == IF cond THEN key :> value ELSE EmptyDict

RECURSIVE ConcatAll(_, _)
ConcatAll(seqs, i) ==
    IF i > Len(seqs) THEN << >> ELSE seqs[i] \o ConcatAll(seqs, i + 1)

\* the number of items of a list that satisfy a test
CountWhere(items, Test(_)) == Cardinality({ i \in DOMAIN items : Test(items[i]) })

\* sum(term(item) for item in items[i:]) over integers
SumOver(items, i, Term(_)) ==
    LET RECURSIVE Go(_)
        Go(k) == IF k > Len(items) THEN 0 ELSE Term(items[k]) + Go(k + 1)
    IN  Go(i)

\* the same sum over fractions
RSum(items, i, Term(_)) ==
    LET RECURSIVE Go(_)
        Go(k) == IF k > Len(items) THEN R0 ELSE RAdd(Term(items[k]), Go(k + 1))
    IN  Go(i)

\* items[:n]
Head_(items, n) == SubSeq(items, 1, Min(n, Len(items)))

-----------------------------------------------------------------------------
(* Repository tree *)

MaxFiles == 2

MaxGates == 2

RepoRoot == "/repo"

None == "<None>"

\* Files a repository may hold.  lines is content.split('\n'); dirs are the
\* directories between the root and the file; ext is the suffix the file
\* name ends with.
FileKinds ==
    { [path |-> "/repo/app.py", dirs |-> << >>, ext |-> ".py",
       readable |-> TRUE, lines |-> << "logger.info(\"start\")" >>],
      [path |-> "/repo/src/settings.json", dirs |-> << "src" >>, ext |-> ".json",
       readable |-> TRUE, lines |-> << "password = \"abc123xyz\"", "" >>],
      [path |-> "/repo/tests/test_retry.py", dirs |-> << "tests" >>, ext |-> ".py",
       readable |-> TRUE,
       lines |-> << "def test_retry():", "    logger.info(json.dumps(e))" >>],
      [path |-> "/repo/src/node_modules/lib/index.js",
       dirs |-> << "src", "node_modules", "lib" >>, ext |-> ".js",
       readable |-> TRUE, lines |-> << "logger.info(\"start\")" >>],
      [path |-> "/repo/blob.py", dirs |-> << >>, ext |-> ".py",
       readable |-> FALSE, lines |-> << "logger.info(\"start\")" >>],
      [path |-> "/repo/.env", dirs |-> << >>, ext |-> ".env",
       readable |-> TRUE, lines |-> << "password = \"abc123xyz\"" >>],
      [path |-> "/repo/docs/notes.txt", dirs |-> << "docs" >>, ext |-> ".txt",
       readable |-> TRUE, lines |-> << "logger.info(\"start\")" >>] }

\* the repository's files in the order os.walk visits them
Repositories ==
    { s \in UNION { [1..n -> FileKinds] : n \in 0..MaxFiles } :
        \A i, j \in DOMAIN s : s[i] = s[j] => i = j }

-----------------------------------------------------------------------------
(* Pattern catalog and regular-expression search *)

GatePatternCatalog ==
    "STRUCTURED_LOGS" :>
      << [pattern |-> "logger\\.(info|warn|error|debug)",
          description |-> "Structured logging calls"],
         [pattern |-> "log4j|logback|winston|pino",
          description |-> "Logging frameworks"],
         [pattern |-> "JSON\\.stringify|json\\.dumps",
          description |-> "JSON logging"] >>
    @@
    "AVOID_LOGGING_SECRETS" :>
      << [pattern |-> "password|secret|token|key.*log",
          description |-> "Potential secret logging"],
         [pattern |-> "console\\.log.*password|console\\.log.*secret",
          description |-> "Console logging of secrets"] >>
    @@
    "AUDIT_TRAIL" :>
      << [pattern |-> "audit|auditlog|audit_trail",
          description |-> "Audit trail implementation"],
         [pattern |-> "user.*action|action.*log",
          description |-> "User action logging"] >>
    @@
    "CORRELATION_ID" :>
      << [pattern |-> "correlation.*id|request.*id|trace.*id",
          description |-> "Correlation ID implementation"],
         [pattern |-> "X-Correlation-ID|X-Request-ID",
          description |-> "Correlation ID headers"] >>
    @@
    "LOG_API_CALLS" :>
      << [pattern |-> "api.*log|log.*api|request.*log",
          description |-> "API call logging"],
         [pattern |-> "interceptor|middleware.*log",
          description |-> "Request logging middleware"] >>
    @@
    "CLIENT_UI_ERRORS" :>
      << [pattern |-> "error.*tracking|error.*monitoring",
          description |-> "Error tracking implementation"],
         [pattern |-> "sentry|rollbar|bugsnag",
          description |-> "Error tracking services"] >>
    @@
    "RETRY_LOGIC" :>
      << [pattern |-> "retry|retryable|retry.*logic",
          description |-> "Retry logic implementation"],
         [pattern |-> "@Retryable|@Retry|retry.*policy",
          description |-> "Retry annotations"] >>
    @@
    "TIMEOUT_IO" :>
      << [pattern |-> "timeout|timeout.*config",
          description |-> "Timeout configuration"],
         [pattern |-> "@Timeout|timeout.*ms",
          description |-> "Timeout annotations"] >>
    @@
    "THROTTLING" :>
      << [pattern |-> "throttle|rate.*limit|throttling",
          description |-> "Throttling implementation"],
         [pattern |-> "@RateLimit|rate.*limiter",
          description |-> "Rate limiting annotations"] >>
    @@
    "CIRCUIT_BREAKERS" :>
      << [pattern |-> "circuit.*breaker|circuitbreaker",
          description |-> "Circuit breaker implementation"],
         [pattern |-> "Hystrix|Resilience4j|Polly",
          description |-> "Circuit breaker libraries"] >>
    @@
    "HTTP_ERROR_CODES" :>
      << [pattern |-> "HTTP.*[4-5][0-9][0-9]|status.*[4-5][0-9][0-9]",
          description |-> "HTTP error handling"],
         [pattern |-> "@ResponseStatus|@ExceptionHandler",
          description |-> "Error handling annotations"] >>
    @@
    "URL_MONITORING" :>
      << [pattern |-> "health.*check|healthcheck|health.*endpoint",
          description |-> "Health check endpoints"],
         [pattern |-> "@HealthCheck|/health|/ping",
          description |-> "Health monitoring"] >>
    @@
    "AUTOMATED_TESTS" :>
      << [pattern |-> "test.*|spec.*|.*test\\.|.*spec\\.",
          description |-> "Test files"],
         [pattern |-> "@Test|describe\\(|it\\(|test\\(|pytest",
          description |-> "Test annotations"] >>
    @@
    "AUTO_SCALE" :>
      << [pattern |-> "autoscale|auto.*scale|scaling.*policy",
          description |-> "Auto-scaling configuration"],
         [pattern |-> "HPA|HorizontalPodAutoscaler|autoscaling",
          description |-> "Kubernetes auto-scaling"] >>
    @@
    "ALERTING_ACTIONABLE" :>
      << [pattern |-> "alert|alerting|notification",
          description |-> "Alerting implementation"],
         [pattern |-> "PagerDuty|Slack|email.*alert",
          description |-> "Alerting services"] >>

GetGatePatternsLogsByDefault(gate_name) ==
    IF gate_name \in DOMAIN GatePatternCatalog
    THEN GatePatternCatalog[gate_name]
    ELSE GatePatternCatalog["STRUCTURED_LOGS"]

GetGatePatterns(gate_name) ==
    IF gate_name \in DOMAIN GatePatternCatalog
    THEN GatePatternCatalog[gate_name]
    ELSE << >>

\* re.search(pattern, line, re.IGNORECASE) on the lines of FileKinds: the
\* (pattern, line) pairs for which the search succeeds
ReSearch(pattern, line) ==
    <<pattern, line>> \in
        { <<"logger\\.(info|warn|error|debug)",
             "logger.info(\"start\")">>,
          <<"logger\\.(info|warn|error|debug)",
             "    logger.info(json.dumps(e))">>,
          <<"JSON\\.stringify|json\\.dumps",
             "    logger.info(json.dumps(e))">>,
          <<"password|secret|token|key.*log",
             "password = \"abc123xyz\"">>,
          <<"retry|retryable|retry.*logic",
             "def test_retry():">>,
          <<"test.*|spec.*|.*test\\.|.*spec\\.",
             "def test_retry():">>,
          <<"test.*|spec.*|.*test\\.|.*spec\\.",
             "\"express\": \"latest\"">> }

\* str.strip() on the lines of FileKinds
Strip(line) ==
    IF line = "    logger.info(json.dumps(e))"
    THEN "logger.info(json.dumps(e))"
    ELSE line

-----------------------------------------------------------------------------
(* File walker and gate scanner *)

ExcludedDirs == {".git", "node_modules", "__pycache__", ".pytest_cache"}

BasicExtensions == {".py", ".js", ".ts", ".java", ".go", ".rs", ".cpp", ".c", ".cs"}

ComprehensiveExtensions ==
    {".py", ".js", ".ts", ".java", ".go", ".rs", ".cpp", ".c", ".cs", ".php",
     ".rb", ".scala", ".kt", ".swift", ".json", ".yaml", ".yml", ".toml",
     ".xml", ".properties", ".conf", ".config"}

ShouldAnalyzeFile(file, scan_depth) ==
    IF scan_depth = "basic" THEN file.ext \in BasicExtensions
    ELSE IF scan_depth = "comprehensive" THEN file.ext \in ComprehensiveExtensions
    ELSE TRUE

\* os.walk(repo_path) with dirs[:] pruned: the files below repo_path none of
\* whose directories is excluded; nothing when repo_path is not a directory
Walk(repo_path, excluded) ==
    IF repo_path = RepoRoot
    THEN SelectSeq(fs, LAMBDA file :
             \A i \in 1..Len(file.dirs) : file.dirs[i] \notin excluded)
    ELSE << >>

\* the evidence of one line: one record per matching rule, in rule order
LineEvidence(file, line_num, patterns) ==
    LET matching == SelectSeq(patterns,
                        LAMBDA rule : ReSearch(rule.pattern, file.lines[line_num]))
    IN  [ k \in 1..Len(matching) |->
            [ file |-> file.path,
              line |-> line_num,
              line_content |-> Strip(file.lines[line_num]),
              pattern |-> matching[k].pattern,
              description |-> matching[k].description ] ]

RECURSIVE LinesEvidence(_, _, _)
LinesEvidence(file, line_num, patterns) ==
    IF line_num > Len(file.lines) THEN << >>
    ELSE LineEvidence(file, line_num, patterns)
             \o LinesEvidence(file, line_num + 1, patterns)

AnalyzeFileForPatternsNoSkip(file, patterns) == LinesEvidence(file, 1, patterns)

\* open() raising is caught inside: an unreadable file yields no evidence
AnalyzeFileForPatterns(file, patterns) ==
    IF file.readable THEN LinesEvidence(file, 1, patterns) ELSE << >>

RECURSIVE ScanFilesLastCount(_, _, _, _, _)
ScanFilesLastCount(files, i, patterns, scan_depth, acc) ==
    IF i > Len(files) THEN acc
    ELSE IF ShouldAnalyzeFile(files[i], scan_depth)
    THEN LET file_evidence == AnalyzeFileForPatterns(files[i], patterns)
         IN  ScanFilesLastCount(files, i + 1, patterns, scan_depth,
                 [ evidence |-> acc.evidence \o file_evidence,
                   patterns_found |->
                       IF file_evidence # << >> THEN Len(file_evidence)
                       ELSE acc.patterns_found,
                   files_analyzed |-> acc.files_analyzed + 1 ])
    ELSE ScanFilesLastCount(files, i + 1, patterns, scan_depth, acc)

RECURSIVE ScanFilesCountRead(_, _, _, _, _)
ScanFilesCountRead(files, i, patterns, scan_depth, acc) ==
    IF i > Len(files) THEN acc
    ELSE IF ShouldAnalyzeFile(files[i], scan_depth)
    THEN LET file_evidence == AnalyzeFileForPatterns(files[i], patterns)
         IN  ScanFilesCountRead(files, i + 1, patterns, scan_depth,
                 [ evidence |-> acc.evidence \o file_evidence,
                   patterns_found |-> acc.patterns_found + Len(file_evidence),
                   files_analyzed |->
                       acc.files_analyzed + (IF files[i].readable THEN 1 ELSE 0) ])
    ELSE ScanFilesCountRead(files, i + 1, patterns, scan_depth, acc)

\* the loop of _validate_with_patterns over the walked files, from file i on
RECURSIVE ScanFiles(_, _, _, _, _)
ScanFiles(files, i, patterns, scan_depth, acc) ==
    IF i > Len(files) THEN acc
    ELSE IF ShouldAnalyzeFile(files[i], scan_depth)
    THEN LET file_evidence == AnalyzeFileForPatterns(files[i], patterns)
         IN  ScanFiles(files, i + 1, patterns, scan_depth,
                 [ evidence |-> acc.evidence \o file_evidence,
                   patterns_found |-> acc.patterns_found + Len(file_evidence),
                   files_analyzed |-> acc.files_analyzed + 1 ])
    ELSE ScanFiles(files, i + 1, patterns, scan_depth, acc)

-----------------------------------------------------------------------------
(* Recommendations *)

\* gate_name.replace('_', ' ').lower() on the gate names in use
ReplaceLower ==
    "STRUCTURED_LOGS" :> "structured logs" @@
    "AVOID_LOGGING_SECRETS" :> "avoid logging secrets" @@
    "AUDIT_TRAIL" :> "audit trail" @@
    "CORRELATION_ID" :> "correlation id" @@
    "LOG_API_CALLS" :> "log api calls" @@
    "CLIENT_UI_ERRORS" :> "client ui errors" @@
    "RETRY_LOGIC" :> "retry logic" @@
    "TIMEOUT_IO" :> "timeout io" @@
    "THROTTLING" :> "throttling" @@
    "CIRCUIT_BREAKERS" :> "circuit breakers" @@
    "HTTP_ERROR_CODES" :> "http error codes" @@
    "URL_MONITORING" :> "url monitoring" @@
    "AUTOMATED_TESTS" :> "automated tests" @@
    "AUTO_SCALE" :> "auto scale" @@
    "ALERTING_ACTIONABLE" :> "alerting actionable" @@
    "AUTHENTICATION" :> "authentication" @@
    "AUTHORIZATION" :> "authorization" @@
    "ERROR_HANDLING" :> "error handling"

Returned(value) == [raised |-> FALSE, value |-> value]

Raised(error) == [raised |-> TRUE, error |-> error]

GenerateGateRecommendationsByEvidence(gate_name, patterns_found, evidence) ==
    LET specific ==
          IF gate_name = "STRUCTURED_LOGS"
          THEN IF Len(evidence) = 0
               THEN << "Implement structured logging framework (log4j, winston, etc.)",
                       "Use JSON format for log output",
                       "Add log levels (INFO, WARN, ERROR, DEBUG)" >>
               ELSE << "Ensure consistent logging patterns across all files",
                       "Add correlation IDs to log entries" >>
          ELSE IF gate_name = "AVOID_LOGGING_SECRETS"
          THEN IF Len(evidence) > 0
               THEN << "Remove or mask sensitive data from logs",
                       "Use environment variables for secrets",
                       "Implement log filtering for sensitive data" >>
               ELSE << "Continue avoiding logging of sensitive information" >>
          ELSE IF gate_name = "AUTOMATED_TESTS"
          THEN IF Len(evidence) = 0
               THEN << "Add unit tests for all components",
                       "Implement integration tests",
                       "Add test coverage reporting" >>
               ELSE << "Increase test coverage to at least 80%",
                       "Add performance and security tests" >>
          ELSE IF gate_name = "AUTO_SCALE"
          THEN IF Len(evidence) = 0
               THEN << "Implement Kubernetes Horizontal Pod Autoscaler (HPA)",
                       "Configure auto-scaling policies",
                       "Add resource monitoring and alerts" >>
               ELSE << "Optimize auto-scaling thresholds",
                       "Add custom metrics for scaling decisions" >>
          ELSE << >>
    IN  IF Len(evidence) = 0
        THEN IF IsStr(gate_name)
             THEN Returned(specific \o
                      << "Implement " \o ReplaceLower[gate_name] \o " patterns",
                         "Follow enterprise security standards" >>)
             ELSE Raised("object has no attribute 'replace'")
        ELSE Returned(specific)

\* a non-string gate_name has no replace(): AttributeError
GenerateGateRecommendations(gate_name, patterns_found, evidence) ==
    LET specific ==
          IF gate_name = "STRUCTURED_LOGS"
          THEN IF patterns_found = 0
               THEN << "Implement structured logging framework (log4j, winston, etc.)",
                       "Use JSON format for log output",
                       "Add log levels (INFO, WARN, ERROR, DEBUG)" >>
               ELSE << "Ensure consistent logging patterns across all files",
                       "Add correlation IDs to log entries" >>
          ELSE IF gate_name = "AVOID_LOGGING_SECRETS"
          THEN IF patterns_found > 0
               THEN << "Remove or mask sensitive data from logs",
                       "Use environment variables for secrets",
                       "Implement log filtering for sensitive data" >>
               ELSE << "Continue avoiding logging of sensitive information" >>
          ELSE IF gate_name = "AUTOMATED_TESTS"
          THEN IF patterns_found = 0
               THEN << "Add unit tests for all components",
                       "Implement integration tests",
                       "Add test coverage reporting" >>
               ELSE << "Increase test coverage to at least 80%",
                       "Add performance and security tests" >>
          ELSE IF gate_name = "AUTO_SCALE"
          THEN IF patterns_found = 0
               THEN << "Implement Kubernetes Horizontal Pod Autoscaler (HPA)",
                       "Configure auto-scaling policies",
                       "Add resource monitoring and alerts" >>
               ELSE << "Optimize auto-scaling thresholds",
                       "Add custom metrics for scaling decisions" >>
          ELSE << >>
    IN  IF patterns_found = 0
        THEN IF IsStr(gate_name)
             THEN Returned(specific \o
                      << "Implement " \o ReplaceLower[gate_name] \o " patterns",
                         "Follow enterprise security standards" >>)
             ELSE Raised("object has no attribute 'replace'")
        ELSE Returned(specific)

-----------------------------------------------------------------------------
(* Validation of one gate and of a list of gates *)

\* an ERROR result that keeps the FAIL status of a scored gate
ErrorResultAsFail(gate_name, error) ==
    [ gate_name |-> gate_name,
      status |-> "FAIL",
      score |-> R0,
      error |-> error,
      evidence |-> << >>,
      recommendations |-> << >> ]

ErrorResult(gate_name, error) ==
    [ gate_name |-> gate_name,
      status |-> "ERROR",
      score |-> R0,
      error |-> error,
      evidence |-> << >>,
      recommendations |-> << >> ]

ValidateWithPatterns(repo_path, gate_name, scan_depth) ==
    LET patterns == GetGatePatterns(gate_name)
        scan == ScanFiles(Walk(repo_path, ExcludedDirs), 1, patterns,
                          scan_depth,
                          [evidence |-> << >>, patterns_found |-> 0, files_analyzed |-> 0])
        score == CalculateGateScore(scan.patterns_found, scan.files_analyzed,
                                    gate_name)
        status == DetermineGateStatus(score, scan.patterns_found)
        recommendations ==
            GenerateGateRecommendations(gate_name, scan.patterns_found,
                                        scan.evidence)
    IN  IF recommendations.raised
        THEN ErrorResult(gate_name, recommendations.error)
        ELSE [ gate_name |-> gate_name,
               status |-> status,
               score |-> score,
               evidence |-> scan.evidence,
               recommendations |-> recommendations.value,
               patterns_found |-> scan.patterns_found,
               files_analyzed |-> scan.files_analyzed ]

\* CODEGATES_AVAILABLE is False: the pattern path; its result is never an
\* exception, so the except branch of _validate_single_gate is not taken
ValidateSingleGate(repo_path, gate_name, scan_depth) ==
    ValidateWithPatterns(repo_path, gate_name, scan_depth)

\* round(x, 2) for x >= 0: nearest hundredth, ties to even
Round2(x) ==
    LET h == 100 * x[1]
        q == h \div x[2]
        r == h % x[2]
    IN  IF 2 * r > x[2] THEN Rat(q + 1, 100)
        ELSE IF 2 * r < x[2] THEN Rat(q, 100)
        ELSE IF q % 2 = 0 THEN Rat(q, 100)
        ELSE Rat(q + 1, 100)

RECURSIVE SumScores(_, _)
SumScores(results, i) ==
    IF i > Len(results) THEN R0
    ELSE RAdd(results[i].score, SumScores(results, i + 1))

CountStatus(results, status) ==
    Cardinality({ i \in 1..Len(results) : results[i].status = status })

\* the summary without the floor of the denominator at 1 still divides by
\* the list length; here: the compliance rate taken over the scored gates only
GenerateValidationSummaryScoredOnly(validation_results) ==
    LET total_gates == Len(validation_results)
        passed_gates == CountStatus(validation_results, "PASS")
        scored == total_gates - CountStatus(validation_results, "ERROR")
        avg_score == RDiv(SumScores(validation_results, 1),
                          FromInt(Max(1, scored)))
    IN  [ total_gates |-> total_gates,
          passed_gates |-> passed_gates,
          failed_gates |-> CountStatus(validation_results, "FAIL"),
          warning_gates |-> CountStatus(validation_results, "WARNING"),
          not_applicable_gates |-> CountStatus(validation_results, "NOT_APPLICABLE"),
          average_score |-> Round2(avg_score),
          compliance_rate |->
              Round2(RMul(Rat(passed_gates, Max(1, scored)), R100)) ]

GenerateValidationSummary(validation_results) ==
    LET total_gates == Len(validation_results)
        passed_gates == CountStatus(validation_results, "PASS")
        failed_gates == CountStatus(validation_results, "FAIL")
        warning_gates == CountStatus(validation_results, "WARNING")
        na_gates == CountStatus(validation_results, "NOT_APPLICABLE")
        avg_score == RDiv(SumScores(validation_results, 1),
                          FromInt(Max(1, total_gates)))
    IN  [ total_gates |-> total_gates,
          passed_gates |-> passed_gates,
          failed_gates |-> failed_gates,
          warning_gates |-> warning_gates,
          not_applicable_gates |-> na_gates,
          average_score |-> Round2(avg_score),
          compliance_rate |->
              Round2(RMul(Rat(passed_gates, Max(1, total_gates)), R100)) ]

\* the loop of run_async that gives up at the first gate that failed
ValidateEachUntilError(repo_path, gates, scan_depth) ==
    LET all == [ i \in 1..Len(gates) |->
                   ValidateSingleGate(repo_path, gates[i], scan_depth) ]
        bad == { i \in 1..Len(gates) : all[i].status = "ERROR" }
    IN  IF bad = {} THEN all
        ELSE SubSeq(all, 1, (CHOOSE i \in bad : \A j \in bad : i <= j) - 1)

\* the loop of run_async: one result per gate, appended in request order
ValidateEach(repo_path, gates, scan_depth) ==
    [ i \in 1..Len(gates) |->
        ValidateSingleGate(repo_path, gates[i], scan_depth) ]

\* args["gates"]: a list of gate identifiers, or a value that is truthy and
\* cannot be iterated (a number, say)
GateList(items) == [iterable |-> TRUE, items |-> items]

\* "not repository_path": None (the key is missing) and "" are falsy
IsFalsyPath(repository_path) == repository_path \in {None, ""}

\* "not gates_to_validate": the empty list (also the default when the key is
\* missing) is falsy
IsFalsyGates(gates) == gates.iterable /\ gates.items = << >>

\* GateValidationTool.run_async
ValidateGatesResult(args) ==
    IF IsFalsyPath(args.repository_path)
    THEN [success |-> FALSE, error |-> "Repository path is required"]
    ELSE IF ~args.gates.iterable
    THEN [success |-> FALSE,
          error |-> "Gate validation failed: object is not iterable"]
    ELSE LET gates_to_validate ==
                 IF IsFalsyGates(args.gates) THEN GetDefaultGates
                 ELSE args.gates.items
         IN       LET validation_results ==
                          ValidateEach(args.repository_path, gates_to_validate,
                                       args.scan_depth)
                  IN  [ success |-> TRUE,
                        repository_path |-> args.repository_path,
                        gates_validated |-> gates_to_validate,
                        validation_results |-> validation_results,
                        summary |-> GenerateValidationSummary(validation_results) ]

ValidateGates(args) ==
    /\ last' = [op |-> "validate_gates", args |-> args,
                result |-> ValidateGatesResult(args)]
    /\ UNCHANGED <<fs, written>>

\* the gate lists a caller passes: none (all default gates), up to MaxGates
\* identifiers, or a value that is no list; the identifiers are two gates
\* with a scoring override, a gate the pattern catalog lacks and a
\* non-string, the other catalog gates being reached through the default list
GateLists ==
    { GateList(items) :
        items \in UNION { [1..n -> { "STRUCTURED_LOGS", "AVOID_LOGGING_SECRETS",
                                     "AUTHENTICATION", NonStringGate }] :
                          n \in 0..MaxGates } }
        \cup { [iterable |-> FALSE, items |-> << >>] }

\* calls on the repository with every gate list and depth; calls without a
\* path or on a path that is no directory with two gate lists
ValidateArgs ==
    [ repository_path : {RepoRoot}, gates : GateLists,
      scan_depth : {"basic", "comprehensive", "deep"} ]
        \cup
    [ repository_path : {None, "/no/such/dir"},
      gates : {GateList(<< >>), GateList(<< "STRUCTURED_LOGS" >>)},
      scan_depth : {"comprehensive"} ]

InitValidate ==
    /\ fs \in Repositories
    /\ written = EmptyDict
    /\ analysis_data = EmptyDict
    /\ last = NoCall

\* one call of the tool on the repository
NextValidate ==
    /\ last = NoCall
    /\ \E args \in ValidateArgs : ValidateGates(args)
    /\ UNCHANGED analysis_data

SpecValidate == InitValidate /\ [][NextValidate]_vars

-----------------------------------------------------------------------------
(* Direct calls of the scorer, the status function and the summary *)

MaxResults == 3

\* gate_validation.py lines 166-168: score, then status from the score
ScoreGate(gate_name, patterns_found, files_analyzed) ==
    /\ last' = [ op |-> "_calculate_gate_score",
                 gate_name |-> gate_name,
                 patterns_found |-> patterns_found,
                 files_analyzed |-> files_analyzed,
                 score |-> CalculateGateScore(patterns_found, files_analyzed, gate_name),
                 status |-> DetermineGateStatus(
                     CalculateGateScore(patterns_found, files_analyzed, gate_name),
                     patterns_found) ]
    /\ UNCHANGED <<fs, written, analysis_data>>

ClassifyScore(score, patterns_found) ==
    /\ last' = [ op |-> "_determine_gate_status",
                 score |-> score,
                 patterns_found |-> patterns_found,
                 status |-> DetermineGateStatus(score, patterns_found) ]
    /\ UNCHANGED <<fs, written, analysis_data>>

SummarizeResults(validation_results) ==
    /\ last' = [ op |-> "_generate_validation_summary",
                 validation_results |-> validation_results,
                 summary |-> GenerateValidationSummary(validation_results) ]
    /\ UNCHANGED <<fs, written, analysis_data>>

InitScore ==
    /\ fs = << >>
    /\ written = EmptyDict
    /\ analysis_data = EmptyDict
    /\ last = NoCall

\* one direct call: a score for a gate identifier (the three gates with a
\* scoring override, catalog gates without one, a gate the pattern catalog
\* lacks and a non-string), a status for every half point in [0,100], or a
\* summary of gate results of any status with any of a few scores
NextScore ==
    /\ last = NoCall
    /\ \/ \E g \in { "STRUCTURED_LOGS", "AVOID_LOGGING_SECRETS", "AUTOMATED_TESTS",
                     "RETRY_LOGIC", "AUTHENTICATION", NonStringGate },
             p \in 0..MaxEvidence, f \in 0..MaxFilesAnalyzed :
             ScoreGate(g, p, f)
       \/ \E s \in { Rat(k, 2) : k \in 0..200 }, p \in {0, MaxEvidence} :
             ClassifyScore(s, p)
       \/ \E results \in
                UNION { [1..n -> [ status : {"PASS", "WARNING", "FAIL",
                                            "NOT_APPLICABLE", "ERROR"},
                                   score : {R0, Rat(100, 3), FromInt(50),
                                            FromInt(80), R100} ]] :
                        n \in 0..MaxResults } :
             SummarizeResults(results)

SpecScore == InitScore /\ [][NextScore]_vars

-----------------------------------------------------------------------------
(* Code scanning tool *)

\* code_scanning.py binds os, sys, asyncio, typing and pathlib; the name re
\* is bound nowhere in the module
ReModuleBound == FALSE

\* re.search(pattern, line, re.IGNORECASE) as code_scanning.py evaluates it:
\* looking up the unbound name re raises NameError; were the name bound, the
\* engine would match the listed (pattern, line) pairs on the lines of the
\* repository files
ScanReSearch(pattern, line) ==
    IF ReModuleBound
    THEN Returned(<<pattern, line>> \in
             { <<"password.*=.*['\\\"][^'\\\"]*['\\\"]", "password = \"abc123xyz\"">>,
               <<"password.*=.*['\\\"][^'\\\"]{8,}['\\\"]", "password = \"abc123xyz\"">> })
    ELSE Raised("NameError: name 're' is not defined")

\* the nested loop over lines and patterns of the three file scanners: the
\* <<line number, pattern index>> pairs appended before the loop ends or an
\* exception leaves it; open() raising is caught too, so an unreadable file
\* yields nothing
ScanMatches(file, patterns) ==
    LET RECURSIVE ScanLoop(_, _, _)
        ScanLoop(line_num, k, acc) ==
            IF line_num > Len(file.lines) THEN acc
            ELSE IF k > Len(patterns) THEN ScanLoop(line_num + 1, 1, acc)
            ELSE LET found == ScanReSearch(patterns[k], file.lines[line_num])
                 IN  IF found.raised THEN acc
                     ELSE ScanLoop(line_num, k + 1,
                              IF found.value THEN Append(acc, <<line_num, k>>)
                              ELSE acc)
    IN  IF file.readable THEN ScanLoop(1, 1, << >>) ELSE << >>

ScanFileForVulnerabilities(file, patterns) ==
    LET hits == ScanMatches(file, [ k \in DOMAIN patterns |-> patterns[k].pattern ])
    IN  [ i \in DOMAIN hits |->
            [ file |-> file.path,
              line |-> hits[i][1],
              line_content |-> Strip(file.lines[hits[i][1]]),
              type |-> patterns[hits[i][2]].type,
              severity |-> patterns[hits[i][2]].severity,
              pattern |-> patterns[hits[i][2]].pattern ] ]

ScanFileForSecrets(file, patterns) ==
    LET hits == ScanMatches(file, patterns)
    IN  [ i \in DOMAIN hits |->
            [ file |-> file.path,
              line |-> hits[i][1],
              line_content |-> Strip(file.lines[hits[i][1]]),
              pattern |-> patterns[hits[i][2]],
              severity |-> "High" ] ]

ShouldScanFile(file) ==
    file.ext \in
        {".py", ".js", ".ts", ".java", ".go", ".rs", ".cpp", ".c", ".cs", ".php",
         ".rb", ".scala", ".kt", ".swift", ".json", ".yaml", ".yml", ".toml",
         ".xml", ".properties", ".conf", ".config", ".env"}

\* the files the os.walk loops of the three tree scanners hand to the file
\* scanner
FilesToScan(repo_path) == 
    SelectSeq(Walk(repo_path, {".git", "node_modules", "__pycache__"}), ShouldScanFile)

GetSeverityBreakdownMediumTwice(issues) ==
    [ High |-> CountWhere(issues, LAMBDA issue : issue.severity \in {"High", "Medium"}),
      Medium |-> CountWhere(issues, LAMBDA issue : issue.severity = "Medium"),
      Low |-> CountWhere(issues, LAMBDA issue : issue.severity = "Low") ]

GetSeverityBreakdown(issues) ==
    [ High |-> CountWhere(issues, LAMBDA issue : issue.severity = "High"),
      Medium |-> CountWhere(issues, LAMBDA issue : issue.severity = "Medium"),
      Low |-> CountWhere(issues, LAMBDA issue : issue.severity = "Low") ]

ScanVulnerabilities(repo_path) ==
    LET vulnerability_patterns ==
            << [pattern |-> "eval\\s*\\(", type |-> "Code Injection", severity |-> "High"],
               [pattern |-> "exec\\s*\\(", type |-> "Code Injection", severity |-> "High"],
               [pattern |-> "sql.*injection", type |-> "SQL Injection", severity |-> "High"],
               [pattern |-> "xss|cross.*site.*scripting", type |-> "XSS", severity |-> "Medium"],
               [pattern |-> "password.*=.*['\\\"][^'\\\"]*['\\\"]",
                type |-> "Hardcoded Password", severity |-> "High"],
               [pattern |-> "api.*key.*=.*['\\\"][^'\\\"]*['\\\"]",
                type |-> "Hardcoded API Key", severity |-> "High"],
               [pattern |-> "http://", type |-> "Insecure Protocol", severity |-> "Medium"],
               [pattern |-> "console\\.log.*password",
                type |-> "Password Logging", severity |-> "Medium"],
               [pattern |-> "innerHTML.*=.*\\$\\{",
                type |-> "Template Injection", severity |-> "Medium"],
               [pattern |-> "document\\.write.*\\$\\{", type |-> "DOM XSS", severity |-> "Medium"] >>
        files == FilesToScan(repo_path)
        vulnerabilities ==
            ConcatAll([ i \in DOMAIN files |->
                ScanFileForVulnerabilities(files[i], vulnerability_patterns) ], 1)
    IN  [ total_vulnerabilities |-> Len(vulnerabilities),
          vulnerabilities |-> vulnerabilities,
          severity_breakdown |-> GetSeverityBreakdown(vulnerabilities) ]

ScanSecrets(repo_path) ==
    LET secret_patterns ==
            << "password.*=.*['\\\"][^'\\\"]{8,}['\\\"]",
               "secret.*=.*['\\\"][^'\\\"]{8,}['\\\"]",
               "token.*=.*['\\\"][^'\\\"]{8,}['\\\"]",
               "key.*=.*['\\\"][^'\\\"]{8,}['\\\"]",
               "api_key.*=.*['\\\"][^'\\\"]{8,}['\\\"]",
               "private_key.*=.*['\\\"][^'\\\"]{8,}['\\\"]",
               "aws_access_key.*=.*['\\\"][^'\\\"]{8,}['\\\"]",
               "aws_secret_key.*=.*['\\\"][^'\\\"]{8,}['\\\"]" >>
        files == FilesToScan(repo_path)
        secrets_found ==
            ConcatAll([ i \in DOMAIN files |->
                ScanFileForSecrets(files[i], secret_patterns) ], 1)
    IN  [ total_secrets |-> Len(secrets_found),
          secrets |-> secrets_found,
          risk_level |-> IF Len(secrets_found) > 0 THEN "High" ELSE "Low" ]

\* _scan_file_for_auth_issues has the body of _scan_file_for_vulnerabilities
ScanAuthentication(repo_path) ==
    LET auth_patterns ==
            << [pattern |-> "authentication.*disabled", type |-> "Auth Disabled", severity |-> "High"],
               [pattern |-> "authorization.*disabled", type |-> "AuthZ Disabled", severity |-> "High"],
               [pattern |-> "skip.*auth|bypass.*auth", type |-> "Auth Bypass", severity |-> "High"],
               [pattern |-> "admin.*=.*true", type |-> "Hardcoded Admin", severity |-> "High"],
               [pattern |-> "role.*=.*admin", type |-> "Hardcoded Admin Role", severity |-> "High"],
               [pattern |-> "jwt.*secret.*=.*['\\\"][^'\\\"]*['\\\"]",
                type |-> "Weak JWT Secret", severity |-> "Medium"] >>
        files == FilesToScan(repo_path)
        auth_issues ==
            ConcatAll([ i \in DOMAIN files |->
                ScanFileForVulnerabilities(files[i], auth_patterns) ], 1)
    IN  [ total_issues |-> Len(auth_issues),
          authentication_issues |-> auth_issues,
          severity_breakdown |-> GetSeverityBreakdown(auth_issues) ]

\* the file open(os.path.join(repo_path, name)) reads
FileAt(repo_path, name) ==
    fs[CHOOSE i \in DOMAIN fs : fs[i].path = repo_path \o "/" \o name]

\* "needle in content" and "needle in content.lower()" on the repository
\* files, which hold no upper-case letter; the needles hold no line break
InContent(needle, file) ==
    \E i \in DOMAIN file.lines :
        <<needle, file.lines[i]>> \in
            { <<"latest", "\"express\": \"latest\"">>,
              <<"0.0.1", "\"version\": \"0.0.1\"">> }

AnalyzeDependencyFile(file) ==
    IF ~file.readable
    THEN << [ file |-> file.path, type |-> "File Read Error", severity |-> "Low",
              description |-> "Could not read dependency file" ] >>
    ELSE (IF InContent("latest", file)
          THEN << [ file |-> file.path, type |-> "Latest Version", severity |-> "Medium",
                    description |->
                        "Using 'latest' version can lead to unexpected updates" ] >>
          ELSE << >>)
         \o
         (IF InContent("0.0.0", file) \/ InContent("0.0.1", file)
          THEN << [ file |-> file.path, type |-> "Development Version",
                    severity |-> "Medium",
                    description |-> "Using development versions in production" ] >>
          ELSE << >>)

\* the two tests look for the text of a regular expression in the content
AnalyzeConfigFile(file) ==
    IF ~file.readable
    THEN << [ file |-> file.path, type |-> "File Read Error", severity |-> "Low",
              description |-> "Could not read configuration file" ] >>
    ELSE (IF InContent("debug.*=.*true", file)
          THEN << [ file |-> file.path, type |-> "Debug Mode", severity |-> "Medium",
                    description |-> "Debug mode enabled in configuration" ] >>
          ELSE << >>)
         \o
         (IF InContent("password.*=.*['\\\"][^'\\\"]*['\\\"]", file)
          THEN << [ file |-> file.path, type |-> "Hardcoded Password",
                    severity |-> "High",
                    description |-> "Hardcoded password in configuration" ] >>
          ELSE << >>)

\* the names of a list for which os.path.exists(os.path.join(repo_path, name))
ExistingFiles(repo_path, names) ==
    SelectSeq(names, LAMBDA name :
        \E i \in DOMAIN fs : fs[i].path = repo_path \o "/" \o name)

ScanDependencies(repo_path) ==
    LET dependency_files ==
            << "package.json", "requirements.txt", "pom.xml", "build.gradle",
               "go.mod", "Cargo.toml", "Gemfile", "composer.json" >>
        present == ExistingFiles(repo_path, dependency_files)
        dependency_issues ==
            ConcatAll([ i \in DOMAIN present |->
                AnalyzeDependencyFile(FileAt(repo_path, present[i])) ], 1)
    IN  [ total_issues |-> Len(dependency_issues),
          dependency_issues |-> dependency_issues,
          files_analyzed |-> present ]

ScanConfiguration(repo_path) ==
    LET config_files ==
            << ".env", "config.json", "application.properties", "application.yml",
               "docker-compose.yml", "Dockerfile", "kubernetes.yaml", "k8s.yaml" >>
        present == ExistingFiles(repo_path, config_files)
        config_issues ==
            ConcatAll([ i \in DOMAIN present |->
                AnalyzeConfigFile(FileAt(repo_path, present[i])) ], 1)
    IN  [ total_issues |-> Len(config_issues),
          configuration_issues |-> config_issues,
          files_analyzed |-> present ]

CalculateRiskLevel(high_count, medium_count) ==
    IF high_count > 5 THEN "Critical"
    ELSE IF high_count > 0 \/ medium_count > 10 THEN "High"
    ELSE IF medium_count > 5 THEN "Medium"
    ELSE "Low"

\* scan_results.items()
ScanItems(scan_results) ==
    SelectSeq(<< "vulnerabilities", "dependencies", "configuration", "secrets", "authentication" >>,
        LAMBDA key : Has(scan_results, key))

GenerateScanRecommendations(scan_results) ==
    LET For(key, total_key, texts) ==
            IF Has(scan_results, key) /\ Get(scan_results[key], total_key, 0) > 0
            THEN texts ELSE << >>
        recommendations ==
            For("vulnerabilities", "total_vulnerabilities",
                << "Address high and medium severity vulnerabilities immediately",
                   "Implement secure coding practices and code review" >>)
            \o For("dependencies", "total_issues",
                << "Update dependencies to stable versions",
                   "Implement dependency vulnerability scanning" >>)
            \o For("configuration", "total_issues",
                << "Review and secure configuration files",
                   "Use configuration management best practices" >>)
            \o For("secrets", "total_secrets",
                << "Remove hardcoded secrets and use environment variables",
                   "Implement secret management solution" >>)
            \o For("authentication", "total_issues",
                << "Implement proper authentication and authorization",
                   "Review access control mechanisms" >>)
    IN  IF recommendations = << >>
        THEN << "Continue monitoring for security issues",
                "Implement automated security scanning in CI/CD" >>
        ELSE recommendations

GenerateScanSummary(scan_results) ==
    LET items == ScanItems(scan_results)
        Results(key) == scan_results[key]
        HasVulns(key) == Has(Results(key), "vulnerabilities")
        Breakdown(key, severity) ==
            IF HasVulns(key)
            THEN Get(Get(Results(key), "severity_breakdown", EmptyDict), severity, 0)
            ELSE 0
        Secrets(key) == Get(Results(key), "total_secrets", 0)
        total_issues ==
            SumOver(items, 1, LAMBDA key :
                (IF HasVulns(key) THEN Results(key).total_vulnerabilities ELSE 0)
                + Get(Results(key), "total_issues", 0)
                + Secrets(key))
        high_severity ==
            SumOver(items, 1, LAMBDA key : Breakdown(key, "High") + Secrets(key))
        medium_severity == SumOver(items, 1, LAMBDA key : Breakdown(key, "Medium"))
        low_severity == SumOver(items, 1, LAMBDA key : Breakdown(key, "Low"))
    IN  [ total_issues |-> total_issues,
          high_severity |-> high_severity,
          medium_severity |-> medium_severity,
          low_severity |-> low_severity,
          risk_level |-> CalculateRiskLevel(high_severity, medium_severity),
          recommendations |-> GenerateScanRecommendations(scan_results) ]

\* CodeScanningTool.run_async
ScanCodeResult(args) ==
    IF IsFalsyPath(args.repository_path)
    THEN [success |-> FALSE, error |-> "Repository path is required"]
    ELSE LET Wanted(kind) == args.scan_type \in {"comprehensive", kind}
             scan_results ==
                 Entry(Wanted("vulnerabilities"), "vulnerabilities",
                       ScanVulnerabilities(args.repository_path))
                 @@ Entry(Wanted("dependencies"), "dependencies",
                          ScanDependencies(args.repository_path))
                 @@ Entry(Wanted("configuration"), "configuration",
                          ScanConfiguration(args.repository_path))
                 @@ Entry(Wanted("secrets"), "secrets",
                          ScanSecrets(args.repository_path))
                 @@ Entry(Wanted("authentication"), "authentication",
                          ScanAuthentication(args.repository_path))
         IN  [ success |-> TRUE,
               repository_path |-> args.repository_path,
               scan_type |-> args.scan_type,
               scan_results |-> scan_results,
               summary |-> GenerateScanSummary(scan_results) ]

-----------------------------------------------------------------------------
(* Security analysis tool *)

\* "not analysis_data": the empty dictionary (also the default when the key
\* is missing) is falsy
IsFalsyData(data) == data = EmptyDict

\* analysis_data.get(stage, {}).get(key, default)
StageGet(data, stage, key, default) == Get(Get(data, stage, EmptyDict), key, default)

\* an f-string: its fixed text and the values formatted into it
Format(text, value) == <<text, value>>

GateRiskErrorAsFail(gate) ==
    IF Get(gate, "status", None) \in {"FAIL", "ERROR"}
    THEN [ points |-> 10,
           factors |-> << [ factor |-> Format("Failed gate: ", Get(gate, "gate_name", None)),
                            impact |-> "High", probability |-> "High" ] >> ]
    ELSE IF Get(gate, "status", None) = "WARNING"
    THEN [ points |-> 5,
           factors |-> << [ factor |-> Format("Warning gate: ", Get(gate, "gate_name", None)),
                            impact |-> "Medium", probability |-> "Medium" ] >> ]
    ELSE [ points |-> 0, factors |-> << >> ]

\* the loop over the gate results: risk points and one factor per FAIL and
\* per WARNING gate
GateRisk(gate) ==
    IF Get(gate, "status", None) = "FAIL"
    THEN [ points |-> 10,
           factors |-> << [ factor |-> Format("Failed gate: ", Get(gate, "gate_name", None)),
                            impact |-> "High", probability |-> "High" ] >> ]
    ELSE IF Get(gate, "status", None) = "WARNING"
    THEN [ points |-> 5,
           factors |-> << [ factor |-> Format("Warning gate: ", Get(gate, "gate_name", None)),
                            impact |-> "Medium", probability |-> "Medium" ] >> ]
    ELSE [ points |-> 0, factors |-> << >> ]

\* the block on scan_results["vulnerabilities"]
VulnerabilityRisk(scan_results) ==
    IF Has(scan_results, "vulnerabilities")
    THEN LET vulns == scan_results["vulnerabilities"]
             high_vulns == Get(Get(vulns, "severity_breakdown", EmptyDict), "High", 0)
             medium_vulns == Get(Get(vulns, "severity_breakdown", EmptyDict), "Medium", 0)
         IN  [ points |-> high_vulns * 15 + medium_vulns * 8,
               factors |->
                   IF high_vulns > 0
                   THEN << [ factor |-> Format(" high severity vulnerabilities", high_vulns),
                             impact |-> "High", probability |-> "High" ] >>
                   ELSE << >> ]
    ELSE [ points |-> 0, factors |-> << >> ]

\* evidence_data.items(): the sources in the order the collector inserts them
EvidenceItems(evidence_data) ==
    SelectSeq(<< "splunk", "appdynamics", "playwright" >>,
        LAMBDA source : Has(evidence_data, source))

\* the loop over the evidence sources
EvidenceRisk(evidence_data, source) ==
    IF ~Get(evidence_data[source], "success", FALSE)
    THEN [ points |-> 5,
           factors |-> << [ factor |-> Format("Failed  evidence collection", source),
                            impact |-> "Medium", probability |-> "Medium" ] >> ]
    ELSE [ points |-> 0, factors |-> << >> ]

DetermineRiskLevelExclusive(risk_score) ==
    IF risk_score > 50 THEN "Critical"
    ELSE IF risk_score > 30 THEN "High"
    ELSE IF risk_score > 15 THEN "Medium"
    ELSE "Low"

\* _determine_risk_level
DetermineRiskLevel(risk_score) ==
    IF risk_score >= 50 THEN "Critical"
    ELSE IF risk_score >= 30 THEN "High"
    ELSE IF risk_score >= 15 THEN "Medium"
    ELSE "Low"

\* the substring tests on factor["factor"], by the fixed text of the factor
GenerateRiskMitigation(risk_factors) ==
    ConcatAll([ i \in DOMAIN risk_factors |->
        LET text == risk_factors[i].factor[1]
        IN  IF text = "Failed gate: "
            THEN << "Implement missing security gates and patterns" >>
            ELSE IF text = " high severity vulnerabilities"
            THEN << "Address vulnerabilities through code fixes and updates" >>
            ELSE IF text = "Failed  evidence collection"
            THEN << "Fix monitoring and logging infrastructure" >>
            ELSE << >> ], 1)

PerformRiskAssessmentCapped(data) ==
    LET gate_results == StageGet(data, "gate_validation", "validation_results", << >>)
        scan_results == StageGet(data, "security_scan", "scan_results", EmptyDict)
        evidence_data == StageGet(data, "evidence_collection", "evidence_data", EmptyDict)
        sources == EvidenceItems(evidence_data)
        parts ==
            [ i \in DOMAIN gate_results |-> GateRisk(gate_results[i]) ]
            \o << VulnerabilityRisk(scan_results) >>
            \o [ i \in DOMAIN sources |-> EvidenceRisk(evidence_data, sources[i]) ]
        risk_score == Min(50, SumOver(parts, 1, LAMBDA part : part.points))
        risk_factors == ConcatAll([ i \in DOMAIN parts |-> parts[i].factors ], 1)
    IN  [ risk_score |-> risk_score,
          risk_level |-> DetermineRiskLevel(risk_score),
          risk_factors |-> risk_factors,
          risk_mitigation |-> GenerateRiskMitigation(risk_factors) ]

\* _perform_risk_assessment
PerformRiskAssessment(data) ==
    LET gate_results == StageGet(data, "gate_validation", "validation_results", << >>)
        scan_results == StageGet(data, "security_scan", "scan_results", EmptyDict)
        evidence_data == StageGet(data, "evidence_collection", "evidence_data", EmptyDict)
        sources == EvidenceItems(evidence_data)
        parts ==
            [ i \in DOMAIN gate_results |-> GateRisk(gate_results[i]) ]
            \o << VulnerabilityRisk(scan_results) >>
            \o [ i \in DOMAIN sources |-> EvidenceRisk(evidence_data, sources[i]) ]
        risk_score == SumOver(parts, 1, LAMBDA part : part.points)
        risk_factors == ConcatAll([ i \in DOMAIN parts |-> parts[i].factors ], 1)
    IN  [ risk_score |-> risk_score,
          risk_level |-> DetermineRiskLevel(risk_score),
          risk_factors |-> risk_factors,
          risk_mitigation |-> GenerateRiskMitigation(risk_factors) ]

CreateThreatMatrix(threats) ==
    LET Cell(impact, likelihood) ==
            SelectSeq(threats, LAMBDA threat :
                threat.impact = impact /\ threat.likelihood = likelihood)
        Row(impact) ==
            [ High_Likelihood |-> Cell(impact, "High"),
              Medium_Likelihood |-> Cell(impact, "Medium"),
              Low_Likelihood |-> Cell(impact, "Low") ]
    IN  [ High_Impact |-> Row("High"),
          Medium_Impact |-> Row("Medium"),
          Low_Impact |-> Row("Low") ]

\* _perform_threat_modeling; frameworks is the set of keys of the frameworks
\* dictionary, containers the dictionary of container flags
PerformThreatModeling(data) ==
    LET technologies == StageGet(data, "repository_analysis", "technologies", EmptyDict)
        frameworks == Get(technologies, "frameworks", {})
        web_threats ==
            << [ threat |-> "SQL Injection", likelihood |-> "Medium", impact |-> "High",
                 mitigation |-> "Use parameterized queries and input validation" ],
               [ threat |-> "Cross-Site Scripting (XSS)", likelihood |-> "Medium",
                 impact |-> "Medium",
                 mitigation |-> "Implement proper input sanitization and CSP headers" ],
               [ threat |-> "Authentication Bypass", likelihood |-> "Low", impact |-> "High",
                 mitigation |-> "Implement strong authentication and authorization" ] >>
        api_threats ==
            << [ threat |-> "API Rate Limiting Bypass", likelihood |-> "Medium",
                 impact |-> "Medium",
                 mitigation |-> "Implement proper rate limiting and throttling" ],
               [ threat |-> "Insecure API Endpoints", likelihood |-> "Medium", impact |-> "High",
                 mitigation |-> "Secure all API endpoints with proper authentication" ] >>
        container_threats ==
            << [ threat |-> "Container Escape", likelihood |-> "Low", impact |-> "High",
                 mitigation |-> "Use non-root containers and security scanning" ],
               [ threat |-> "Image Vulnerabilities", likelihood |-> "Medium", impact |-> "Medium",
                 mitigation |-> "Regular vulnerability scanning and updates" ] >>
        threats ==
            (IF \E tech \in {"nodejs", "python", "java"} : tech \in frameworks
             THEN web_threats ELSE << >>)
            \o (IF frameworks # {} THEN api_threats ELSE << >>)
            \o (IF Get(Get(technologies, "containers", EmptyDict), "docker", FALSE)
                THEN container_threats ELSE << >>)
    IN  [ total_threats |-> Len(threats),
          threats |-> threats,
          threat_matrix |-> CreateThreatMatrix(threats) ]

GetVulnerabilityRecommendation(vuln_type) ==
    LET recommendations ==
            ("Code Injection" :> "Use parameterized queries and input validation")
            @@ ("SQL Injection" :> "Use prepared statements and input sanitization")
            @@ ("XSS" :> "Implement proper input sanitization and CSP headers")
            @@ ("Hardcoded Password" :> "Use environment variables and secret management")
            @@ ("Insecure Protocol" :> "Use HTTPS and secure protocols")
            @@ ("Password Logging" :> "Remove password logging and use secure logging")
    IN  Get(recommendations, vuln_type,
            "Review and fix according to security best practices")

\* _perform_vulnerability_analysis; _get_severity_distribution has the body
\* of the scanner's _get_severity_breakdown
PerformVulnerabilityAnalysis(data) ==
    LET scan_results == StageGet(data, "security_scan", "scan_results", EmptyDict)
        items == ScanItems(scan_results)
        FromScan(scan_type) ==
            LET results == scan_results[scan_type]
            IN  IF scan_type = "vulnerabilities" /\ Has(results, "vulnerabilities")
                THEN [ i \in DOMAIN results["vulnerabilities"] |->
                         LET vuln == results["vulnerabilities"][i]
                         IN  [ type |-> Get(vuln, "type", "Unknown"),
                               severity |-> Get(vuln, "severity", "Low"),
                               file |-> Get(vuln, "file", "Unknown"),
                               line |-> Get(vuln, "line", 0),
                               description |-> Get(vuln, "line_content", ""),
                               recommendation |->
                                   GetVulnerabilityRecommendation(Get(vuln, "type", "")) ] ]
                ELSE IF scan_type = "secrets" /\ Has(results, "secrets")
                THEN [ i \in DOMAIN results["secrets"] |->
                         LET secret == results["secrets"][i]
                         IN  [ type |-> "Hardcoded Secret",
                               severity |-> "High",
                               file |-> Get(secret, "file", "Unknown"),
                               line |-> Get(secret, "line", 0),
                               description |-> "Hardcoded secret found",
                               recommendation |->
                                   "Remove hardcoded secrets and use environment variables" ] ]
                ELSE << >>
        vulnerabilities == ConcatAll([ i \in DOMAIN items |-> FromScan(items[i]) ], 1)
    IN  [ total_vulnerabilities |-> Len(vulnerabilities),
          vulnerabilities |-> vulnerabilities,
          severity_distribution |-> GetSeverityBreakdown(vulnerabilities),
          critical_vulnerabilities |->
              SelectSeq(vulnerabilities, LAMBDA v : v.severity = "High") ]

CreateImplementationPlan(recommendations) ==
    [ immediate |-> SelectSeq(recommendations, LAMBDA rec : rec.priority = "Critical"),
      short_term |-> SelectSeq(recommendations, LAMBDA rec : rec.priority = "High"),
      long_term |->
          SelectSeq(recommendations, LAMBDA rec : rec.priority \notin {"Critical", "High"}) ]

\* _generate_security_recommendations
GenerateSecurityRecommendations(data) ==
    LET gate_results == StageGet(data, "gate_validation", "validation_results", << >>)
        scan_results == StageGet(data, "security_scan", "scan_results", EmptyDict)
        failed == SelectSeq(gate_results, LAMBDA gate : Get(gate, "status", None) = "FAIL")
        high_vulns ==
            IF Has(scan_results, "vulnerabilities")
            THEN Get(Get(scan_results["vulnerabilities"], "severity_breakdown", EmptyDict),
                     "High", 0)
            ELSE 0
        recommendations ==
            [ i \in DOMAIN failed |->
                [ category |-> "Gate Compliance", priority |-> "High",
                  recommendation |->
                      Format("Fix  gate failure", Get(failed[i], "gate_name", None)),
                  impact |-> "High", effort |-> "Medium" ] ]
            \o (IF high_vulns > 0
                THEN << [ category |-> "Vulnerability Management", priority |-> "Critical",
                          recommendation |->
                              Format("Address  high severity vulnerabilities immediately",
                                     high_vulns),
                          impact |-> "High", effort |-> "High" ] >>
                ELSE << >>)
            \o (IF Has(scan_results, "secrets")
                   /\ Get(scan_results["secrets"], "total_secrets", 0) > 0
                THEN << [ category |-> "Secret Management", priority |-> "High",
                          recommendation |->
                              Format("Implement secret management solution", None),
                          impact |-> "High", effort |-> "Medium" ] >>
                ELSE << >>)
            \o << [ category |-> "Security Monitoring", priority |-> "Medium",
                    recommendation |-> Format("Implement comprehensive security monitoring", None),
                    impact |-> "Medium", effort |-> "High" ],
                  [ category |-> "Code Review", priority |-> "Medium",
                    recommendation |-> Format("Implement automated security code review", None),
                    impact |-> "Medium", effort |-> "Medium" ],
                  [ category |-> "Training", priority |-> "Low",
                    recommendation |-> Format("Provide security training to development team", None),
                    impact |-> "Low", effort |-> "Medium" ] >>
    IN  [ total_recommendations |-> Len(recommendations),
          priority_recommendations |->
              SelectSeq(recommendations, LAMBDA r : r.priority \in {"Critical", "High"}),
          all_recommendations |-> recommendations,
          implementation_plan |-> CreateImplementationPlan(recommendations) ]

\* SecurityAnalysisTool._calculate_security_score
CalculateSecurityScore(analysis_results) ==
    LET risk_score == Get(Get(analysis_results, "risk_assessment", EmptyDict),
                          "risk_score", 0)
        high_vulns == Len(Get(Get(analysis_results, "vulnerability_analysis", EmptyDict),
                              "critical_vulnerabilities", << >>))
    IN  Max(0, 100 - Min(risk_score, 50) - high_vulns * 5)

\* the values the summary text is formatted from
GenerateExecutiveSummary(analysis_results) ==
    LET risk_assessment == Get(analysis_results, "risk_assessment", EmptyDict)
        vulnerability_analysis == Get(analysis_results, "vulnerability_analysis", EmptyDict)
    IN  Format("Security Analysis Summary",
            [ risk_level |-> Get(risk_assessment, "risk_level", "Unknown"),
              total_vulns |-> Get(vulnerability_analysis, "total_vulnerabilities", 0),
              critical_vulns |->
                  Len(Get(vulnerability_analysis, "critical_vulnerabilities", << >>)) ])

GenerateNextSteps ==
    << "Review and prioritize security recommendations",
       "Create remediation plan for critical issues",
       "Implement immediate security fixes",
       "Schedule follow-up security assessment",
       "Establish ongoing security monitoring" >>

GenerateSecurityReport(analysis_results) ==
    [ security_score |-> CalculateSecurityScore(analysis_results),
      executive_summary |-> GenerateExecutiveSummary(analysis_results),
      risk_assessment |-> Get(analysis_results, "risk_assessment", EmptyDict),
      threat_modeling |-> Get(analysis_results, "threat_modeling", EmptyDict),
      vulnerability_analysis |-> Get(analysis_results, "vulnerability_analysis", EmptyDict),
      security_recommendations |->
          Get(analysis_results, "security_recommendations", EmptyDict),
      next_steps |-> GenerateNextSteps ]

\* SecurityAnalysisTool.run_async
AnalyzeSecurityResult(args) ==
    IF IsFalsyData(args.analysis_data)
    THEN [success |-> FALSE, error |-> "Analysis data is required"]
    ELSE LET Wanted(kind) == args.analysis_type \in {"comprehensive", kind}
             analysis_results ==
                 Entry(Wanted("risk_assessment"), "risk_assessment",
                       PerformRiskAssessment(args.analysis_data))
                 @@ Entry(Wanted("threat_modeling"), "threat_modeling",
                          PerformThreatModeling(args.analysis_data))
                 @@ Entry(Wanted("vulnerability_analysis"), "vulnerability_analysis",
                          PerformVulnerabilityAnalysis(args.analysis_data))
                 @@ Entry(Wanted("security_recommendations"), "security_recommendations",
                          GenerateSecurityRecommendations(args.analysis_data))
         IN  [ success |-> TRUE,
               analysis_type |-> args.analysis_type,
               analysis_results |-> analysis_results,
               security_report |-> GenerateSecurityReport(analysis_results) ]

-----------------------------------------------------------------------------
(* Compliance check tool *)

\* a dictionary whose iteration order matters: its keys in insertion order
\* and the value at each key
OrderedDict(keys, at) == [keys |-> keys, at |-> at]

GatePassedAnyStatus(gate_results, gate_name) ==
    \E i \in DOMAIN gate_results :
        Get(gate_results[i], "gate_name", None) = gate_name

\* any(gate.get("gate_name") == name and gate.get("status") == "PASS" ...)
GatePassed(gate_results, gate_name) ==
    \E i \in DOMAIN gate_results :
        /\ Get(gate_results[i], "gate_name", None) = gate_name
        /\ Get(gate_results[i], "status", None) = "PASS"

\* one entry of a controls dictionary after its assessment
Control(control_id, name, compliant) ==
    [ control_id |-> control_id,
      name |-> name,
      status |-> IF compliant THEN "Compliant" ELSE "Not Assessed",
      score |-> IF compliant THEN 100 ELSE 0 ]

IdentifyComplianceGaps(controls) ==
    LET open == SelectSeq(controls, LAMBDA control : control.status # "Compliant")
    IN  [ i \in DOMAIN open |->
            [ control_id |-> open[i].control_id,
              control_name |-> open[i].name,
              status |-> open[i].status,
              score |-> open[i].score,
              gap_description |->
                  Format("Control  () is not compliant",
                         <<open[i].control_id, open[i].name>>) ] ]

GenerateComplianceRecommendations(controls, framework) ==
    LET non_compliant_controls ==
            SelectSeq(controls, LAMBDA control : control.status # "Compliant")
    IN  IF non_compliant_controls # << >>
        THEN << Format("Address  non-compliant  controls",
                       <<Len(non_compliant_controls), framework>>),
                Format("Implement missing security controls and policies", None),
                Format("Conduct regular compliance assessments", None) >>
        ELSE << Format("Maintain  compliance through regular monitoring", framework),
                Format("Continue implementing security best practices", None) >>

FrameworkResultExclusive(framework, controls) ==
    LET total_score == SumOver(controls, 1, LAMBDA control : control.score)
        overall_score == Rat(total_score, Len(controls))
    IN  [ framework |-> framework,
          overall_score |-> Round2(overall_score),
          compliance_status |->
              IF RGt(overall_score, FromInt(80)) THEN "Compliant" ELSE "Non-Compliant",
          controls |-> controls,
          gaps |-> IdentifyComplianceGaps(controls),
          recommendations |-> GenerateComplianceRecommendations(controls, framework) ]

\* the tail shared by the four framework checks: the overall score and the
\* result record
FrameworkResult(framework, controls) ==
    LET total_score == SumOver(controls, 1, LAMBDA control : control.score)
        overall_score == Rat(total_score, Len(controls))
    IN  [ framework |-> framework,
          overall_score |-> Round2(overall_score),
          compliance_status |->
              IF RGe(overall_score, FromInt(80)) THEN "Compliant" ELSE "Non-Compliant",
          controls |-> controls,
          gaps |-> IdentifyComplianceGaps(controls),
          recommendations |-> GenerateComplianceRecommendations(controls, framework) ]

CheckSoc2Compliance(data) ==
    LET gate_results == StageGet(data, "gate_validation", "validation_results", << >>)
        risk_assessment ==
            Get(StageGet(data, "security_analysis", "analysis_results", EmptyDict),
                "risk_assessment", EmptyDict)
    IN  FrameworkResult("SOC2",
          << Control("CC6.1", "Logical Access Security",
                     GatePassed(gate_results, "AUTHENTICATION")),
             Control("CC6.2", "Access Control", GatePassed(gate_results, "AUTHORIZATION")),
             Control("CC6.3", "Security Monitoring",
                     GatePassed(gate_results, "ALERTING_ACTIONABLE")),
             Control("CC7.1", "System Operations",
                     GatePassed(gate_results, "STRUCTURED_LOGS")),
             Control("CC7.2", "Change Management", GatePassed(gate_results, "AUDIT_TRAIL")),
             Control("CC8.1", "Risk Assessment",
                     Get(risk_assessment, "risk_level", None) \in {"Low", "Medium"}),
             Control("CC9.1", "Security Incident Management",
                     GatePassed(gate_results, "ERROR_HANDLING")) >>)

CheckIso27001Compliance(data) ==
    LET gate_results == StageGet(data, "gate_validation", "validation_results", << >>)
    IN  FrameworkResult("ISO27001",
          << Control("A.9.1", "Access Control Policy",
                     GatePassed(gate_results, "AUTHENTICATION")),
             Control("A.9.2", "User Access Management",
                     GatePassed(gate_results, "AUTHORIZATION")),
             Control("A.9.3", "User Responsibilities", FALSE),
             Control("A.12.1", "Operational Procedures", FALSE),
             Control("A.12.2", "Protection from Malware", FALSE),
             Control("A.12.3", "Backup", FALSE),
             Control("A.12.4", "Logging and Monitoring",
                     GatePassed(gate_results, "STRUCTURED_LOGS")) >>)

CheckNistCompliance(data) ==
    LET gate_results == StageGet(data, "gate_validation", "validation_results", << >>)
    IN  FrameworkResult("NIST",
          << Control("AC-1", "Access Control Policy",
                     GatePassed(gate_results, "AUTHENTICATION")),
             Control("AC-2", "Account Management",
                     GatePassed(gate_results, "AUTHORIZATION")),
             Control("AC-3", "Access Enforcement", FALSE),
             Control("AU-2", "Audit Events", GatePassed(gate_results, "AUDIT_TRAIL")),
             Control("AU-3", "Content of Audit Records", FALSE),
             Control("SI-4", "Information System Monitoring",
                     GatePassed(gate_results, "ALERTING_ACTIONABLE")) >>)

CheckEnterpriseCompliance(data) ==
    LET gate_results == StageGet(data, "gate_validation", "validation_results", << >>)
        scan_results == StageGet(data, "security_scan", "scan_results", EmptyDict)
        passed_gates ==
            CountWhere(gate_results, LAMBDA g : Get(g, "status", None) = "PASS")
        total_gates == Len(gate_results)
    IN  FrameworkResult("Enterprise",
          << Control("SEC-001", "Security Gates Implementation",
                     total_gates > 0 /\ 5 * passed_gates >= 4 * total_gates),
             Control("SEC-002", "Vulnerability Management",
                     /\ Has(scan_results, "vulnerabilities")
                     /\ Get(Get(scan_results["vulnerabilities"], "severity_breakdown",
                                EmptyDict), "High", 0) = 0),
             Control("SEC-003", "Monitoring and Alerting",
                     GatePassed(gate_results, "ALERTING_ACTIONABLE")),
             Control("SEC-004", "Logging and Audit",
                     GatePassed(gate_results, "STRUCTURED_LOGS")),
             Control("SEC-005", "Error Handling",
                     GatePassed(gate_results, "ERROR_HANDLING")) >>)

CheckFrameworkCompliance(framework, data) ==
    IF framework = "SOC2" THEN CheckSoc2Compliance(data)
    ELSE IF framework = "ISO27001" THEN CheckIso27001Compliance(data)
    ELSE IF framework = "NIST" THEN CheckNistCompliance(data)
    ELSE IF framework = "Enterprise" THEN CheckEnterpriseCompliance(data)
    ELSE [ success |-> FALSE, error |-> Format("Framework  not supported", framework) ]

GenerateComplianceSummaryAnyPartial(compliance_results) ==
    LET keys == compliance_results.keys
        Result(framework) == compliance_results.at[framework]
        compliant_frameworks ==
            CountWhere(keys, LAMBDA framework :
                Get(Result(framework), "compliance_status", None) = "Compliant")
        total_score ==
            RSum(keys, 1, LAMBDA framework : Get(Result(framework), "overall_score", R0))
        all_gaps ==
            ConcatAll([ i \in DOMAIN keys |-> Get(Result(keys[i]), "gaps", << >>) ], 1)
        all_recommendations ==
            ConcatAll([ i \in DOMAIN keys |->
                Get(Result(keys[i]), "recommendations", << >>) ], 1)
    IN  [ total_frameworks |-> Len(keys),
          compliant_frameworks |-> compliant_frameworks,
          non_compliant_frameworks |-> Len(keys) - compliant_frameworks,
          average_compliance_score |->
              IF keys # << >> THEN Round2(RDiv(total_score, FromInt(Len(keys)))) ELSE R0,
          overall_compliance_status |->
              IF compliant_frameworks = Len(keys) THEN "Fully Compliant"
              ELSE IF compliant_frameworks >= 0 THEN "Partially Compliant"
              ELSE "Non-Compliant",
          key_gaps |-> Head_(all_gaps, 5),
          recommendations |->
              { all_recommendations[i] : i \in DOMAIN all_recommendations } ]

\* ComplianceCheckTool._generate_compliance_summary; list(set(...)) keeps
\* no order, and at most eight distinct recommendations exist, so the first
\* ten are all of them
GenerateComplianceSummaryByStatus(compliance_results) ==
    LET keys == compliance_results.keys
        Result(framework) == compliance_results.at[framework]
        compliant_frameworks ==
            CountWhere(keys, LAMBDA framework :
                Get(Result(framework), "compliance_status", None) = "Compliant")
        total_score ==
            RSum(keys, 1, LAMBDA framework : Get(Result(framework), "overall_score", R0))
        all_gaps ==
            ConcatAll([ i \in DOMAIN keys |-> Get(Result(keys[i]), "gaps", << >>) ], 1)
        all_recommendations ==
            ConcatAll([ i \in DOMAIN keys |->
                Get(Result(keys[i]), "recommendations", << >>) ], 1)
    IN  [ total_frameworks |-> Len(keys),
          compliant_frameworks |-> compliant_frameworks,
          non_compliant_frameworks |->
              CountWhere(keys, LAMBDA framework :
                  Get(Result(framework), "compliance_status", None) = "Non-Compliant"),
          average_compliance_score |->
              IF keys # << >> THEN Round2(RDiv(total_score, FromInt(Len(keys)))) ELSE R0,
          overall_compliance_status |->
              IF compliant_frameworks = Len(keys) THEN "Fully Compliant"
              ELSE IF compliant_frameworks > 0 THEN "Partially Compliant"
              ELSE "Non-Compliant",
          key_gaps |-> Head_(all_gaps, 5),
          recommendations |->
              { all_recommendations[i] : i \in DOMAIN all_recommendations } ]

GenerateComplianceSummary(compliance_results) ==
    LET keys == compliance_results.keys
        Result(framework) == compliance_results.at[framework]
        compliant_frameworks ==
            CountWhere(keys, LAMBDA framework :
                Get(Result(framework), "compliance_status", None) = "Compliant")
        total_score ==
            RSum(keys, 1, LAMBDA framework : Get(Result(framework), "overall_score", R0))
        all_gaps ==
            ConcatAll([ i \in DOMAIN keys |-> Get(Result(keys[i]), "gaps", << >>) ], 1)
        all_recommendations ==
            ConcatAll([ i \in DOMAIN keys |->
                Get(Result(keys[i]), "recommendations", << >>) ], 1)
    IN  [ total_frameworks |-> Len(keys),
          compliant_frameworks |-> compliant_frameworks,
          non_compliant_frameworks |-> Len(keys) - compliant_frameworks,
          average_compliance_score |->
              IF keys # << >> THEN Round2(RDiv(total_score, FromInt(Len(keys)))) ELSE R0,
          overall_compliance_status |->
              IF compliant_frameworks = Len(keys) THEN "Fully Compliant"
              ELSE IF compliant_frameworks > 0 THEN "Partially Compliant"
              ELSE "Non-Compliant",
          key_gaps |-> Head_(all_gaps, 5),
          recommendations |->
              { all_recommendations[i] : i \in DOMAIN all_recommendations } ]

DefaultFrameworks == << "SOC2", "ISO27001", "NIST", "Enterprise" >>

\* ComplianceCheckTool.run_async
CheckComplianceResult(args) ==
    IF IsFalsyData(args.analysis_data)
    THEN [success |-> FALSE, error |-> "Analysis data is required for compliance checks"]
    ELSE LET \* the keys left by assigning compliance_results[framework] for
             \* each requested framework in turn
             RECURSIVE InsertionOrder(_)
             InsertionOrder(i) ==
                 IF i > Len(args.frameworks) THEN << >>
                 ELSE IF \E j \in 1..(i - 1) : args.frameworks[j] = args.frameworks[i]
                 THEN InsertionOrder(i + 1)
                 ELSE << args.frameworks[i] >> \o InsertionOrder(i + 1)
             keys == InsertionOrder(1)
             compliance_results ==
                 OrderedDict(keys,
                     [ framework \in { keys[i] : i \in DOMAIN keys } |->
                         CheckFrameworkCompliance(framework, args.analysis_data) ])
         IN  [ success |-> TRUE,
               frameworks_checked |-> args.frameworks,
               compliance_results |-> compliance_results,
               compliance_summary |-> GenerateComplianceSummary(compliance_results) ]

-----------------------------------------------------------------------------
(* Report generation tool *)

GenerateReportMetadata(now) ==
    [ report_id |-> Format("SEC-", now),
      generated_at |-> now,
      report_version |-> "1.0",
      tool_version |-> "HardGate Agent 1.0.0",
      generator |-> "HardGate Analysis Agent" ]

GateResultsOf(data) == StageGet(data, "gate_validation", "validation_results", << >>)

ScanResultsOf(data) == StageGet(data, "security_scan", "scan_results", EmptyDict)

ComplianceResultsOf(data) ==
    StageGet(data, "compliance_check", "compliance_results",
             OrderedDict(<< >>, EmptyDict))

RiskAssessmentOf(data) ==
    Get(StageGet(data, "security_analysis", "analysis_results", EmptyDict),
        "risk_assessment", EmptyDict)

\* scan_results["vulnerabilities"].get("severity_breakdown", {}).get("High", 0)
\* under the test "vulnerabilities" in scan_results
HighVulns(data) ==
    IF Has(ScanResultsOf(data), "vulnerabilities")
    THEN Get(Get(ScanResultsOf(data)["vulnerabilities"], "severity_breakdown", EmptyDict),
             "High", 0)
    ELSE 0

FailedGates(data) ==
    SelectSeq(GateResultsOf(data), LAMBDA g : Get(g, "status", None) = "FAIL")

CalculateOverallSecurityScoreUnfloored(data) ==
    100 - Len(FailedGates(data)) * 5 - HighVulns(data) * 10

\* ReportGenerationTool._calculate_overall_security_score
CalculateOverallSecurityScore(data) ==
    Max(0, 100 - Len(FailedGates(data)) * 5 - HighVulns(data) * 10)

DetermineOverallRiskLevel(data) == Get(RiskAssessmentOf(data), "risk_level", "Unknown")

ExtractKeyFindings(data) ==
    LET evidence_data == StageGet(data, "evidence_collection", "evidence_data", EmptyDict)
        sources == EvidenceItems(evidence_data)
        failed_evidence ==
            CountWhere(sources, LAMBDA source :
                ~Get(evidence_data[source], "success", FALSE))
    IN  (IF FailedGates(data) # << >>
         THEN << Format(" security gates failed validation", Len(FailedGates(data))) >>
         ELSE << >>)
        \o (IF HighVulns(data) > 0
            THEN << Format(" high severity vulnerabilities detected", HighVulns(data)) >>
            ELSE << >>)
        \o (IF failed_evidence > 0
            THEN << Format(" evidence collection sources failed", failed_evidence) >>
            ELSE << >>)

ExtractCriticalIssues(data) ==
    LET failed_critical ==
            SelectSeq(GateResultsOf(data), LAMBDA g :
                /\ Get(g, "gate_name", None) \in {"AUTHENTICATION", "AUTHORIZATION", "ALERTING_ACTIONABLE"}
                /\ Get(g, "status", None) = "FAIL")
    IN  (IF HighVulns(data) > 0
         THEN << Format(" critical vulnerabilities require immediate attention",
                        HighVulns(data)) >>
         ELSE << >>)
        \o (IF failed_critical # << >>
            THEN << Format(" critical security gates failed", Len(failed_critical)) >>
            ELSE << >>)

\* ReportGenerationTool._generate_executive_summary
ReportExecutiveSummary(data) ==
    LET gate_results == GateResultsOf(data)
        scan_results == ScanResultsOf(data)
        compliance_results == ComplianceResultsOf(data)
        keys == compliance_results.keys
        total_gates == Len(gate_results)
        passed_gates == CountWhere(gate_results, LAMBDA g : Get(g, "status", None) = "PASS")
        total_vulns ==
            IF Has(scan_results, "vulnerabilities")
            THEN Get(scan_results["vulnerabilities"], "total_vulnerabilities", 0)
            ELSE 0
        compliance_score ==
            IF keys # << >>
            THEN RDiv(RSum(keys, 1, LAMBDA framework :
                          Get(compliance_results.at[framework], "overall_score", R0)),
                      FromInt(Len(keys)))
            ELSE R0
    IN  [ overall_security_score |-> CalculateOverallSecurityScore(data),
          gate_compliance_rate |-> Round2(Rat(100 * passed_gates, Max(1, total_gates))),
          total_vulnerabilities |-> total_vulns,
          critical_vulnerabilities |-> HighVulns(data),
          compliance_score |-> Round2(compliance_score),
          risk_level |-> DetermineOverallRiskLevel(data),
          key_findings |-> ExtractKeyFindings(data),
          critical_issues |-> ExtractCriticalIssues(data) ]

ExtractRiskAssessment(data) ==
    [ risk_level |-> Get(RiskAssessmentOf(data), "risk_level", "Unknown"),
      risk_score |-> Get(RiskAssessmentOf(data), "risk_score", 0),
      risk_factors |-> Get(RiskAssessmentOf(data), "risk_factors", << >>),
      risk_mitigation |-> Get(RiskAssessmentOf(data), "risk_mitigation", << >>) ]

ExtractComplianceStatus(data) ==
    LET compliance_results == ComplianceResultsOf(data)
    IN  OrderedDict(compliance_results.keys,
            [ framework \in DOMAIN compliance_results.at |->
                [ status |-> Get(compliance_results.at[framework],
                                 "compliance_status", "Unknown"),
                  score |-> Get(compliance_results.at[framework], "overall_score", R0) ] ])

\* the frameworks of compliance_results whose status is not "Compliant"
NonCompliantFrameworks(data) ==
    SelectSeq(ComplianceResultsOf(data).keys, LAMBDA framework :
        Get(ComplianceResultsOf(data).at[framework], "compliance_status", None)
            # "Compliant")

ReportRecommendations(data) ==
    LET security_analysis ==
            StageGet(data, "security_analysis", "analysis_results", EmptyDict)
        open == NonCompliantFrameworks(data)
        failed == FailedGates(data)
    IN  (IF Has(security_analysis, "security_recommendations")
         THEN Get(security_analysis["security_recommendations"],
                  "priority_recommendations", << >>)
         ELSE << >>)
        \o [ i \in DOMAIN open |->
               [ category |-> Format(" Compliance", open[i]),
                 priority |-> "High",
                 recommendation |-> Format("Achieve  compliance", open[i]),
                 impact |-> "High", effort |-> "High" ] ]
        \o [ i \in DOMAIN failed |->
               [ category |-> "Gate Compliance",
                 priority |-> "High",
                 recommendation |->
                     Format("Fix  gate failure", Get(failed[i], "gate_name", None)),
                 impact |-> "High", effort |-> "Medium" ] ]

\* scan_results["vulnerabilities"].get("vulnerabilities", [])
VulnerabilityList(data) ==
    IF Has(ScanResultsOf(data), "vulnerabilities")
    THEN Get(ScanResultsOf(data)["vulnerabilities"], "vulnerabilities", << >>)
    ELSE << >>

GenerateActionItems(data) ==
    LET top == Head_(VulnerabilityList(data), 5)
        failed == FailedGates(data)
    IN  [ i \in DOMAIN top |->
            [ priority |-> "Critical",
              action |-> Format("Fix  in ",
                            <<Get(top[i], "type", "vulnerability"),
                              Get(top[i], "file", "unknown")>>),
              deadline |-> "Immediate",
              owner |-> "Development Team",
              description |-> Get(top[i], "line_content", "") ] ]
        \o [ i \in DOMAIN failed |->
               [ priority |-> "High",
                 action |-> Format("Implement  gate requirements",
                               Get(failed[i], "gate_name", None)),
                 deadline |-> "1 week",
                 owner |-> "Development Team",
                 description |->
                     Format("Gate  failed with score %",
                            <<Get(failed[i], "gate_name", None),
                              Get(failed[i], "score", R0)>>) ] ]

GenerateComprehensiveReport(data, now) ==
    [ report_metadata |-> GenerateReportMetadata(now),
      executive_summary |-> ReportExecutiveSummary(data),
      repository_analysis |-> Get(data, "repository_analysis", EmptyDict),
      security_scan |-> Get(data, "security_scan", EmptyDict),
      gate_validation |-> Get(data, "gate_validation", EmptyDict),
      evidence_collection |-> Get(data, "evidence_collection", EmptyDict),
      security_analysis |-> Get(data, "security_analysis", EmptyDict),
      compliance_check |-> Get(data, "compliance_check", EmptyDict),
      llm_analysis |-> Get(data, "llm_analysis", EmptyDict),
      recommendations |-> ReportRecommendations(data),
      action_items |-> GenerateActionItems(data),
      appendix |->
          [ methodology |->
                    "This report was generated using the HardGate Analysis Agent with comprehensive security analysis tools",
                tools_used |-> << "Repository Analysis Tool", "Security Scanning Tool", "Gate Validation Tool",
                    "Evidence Collection Tool", "Security Analysis Tool", "Compliance Check Tool",
                    "LLM Analysis Tool" >>,
                frameworks_referenced |->
                    << "SOC2", "ISO27001", "NIST Cybersecurity Framework",
                       "Enterprise Security Standards" >>,
                glossary |->
                    ("Hard Gates" :> "Enterprise security requirements that must be met")
                    @@ ("Compliance" :> "Adherence to security standards and frameworks")
                    @@ ("Risk Assessment" :> "Evaluation of security risks and their impact")
                    @@ ("Vulnerability" :> "Security weakness that could be exploited") ] ]

GenerateExecutiveRecommendations(data) ==
    (IF Len(FailedGates(data)) > 0
     THEN << Format("Address  failed security gates", Len(FailedGates(data))) >>
     ELSE << >>)
    \o (IF HighVulns(data) > 0
        THEN << Format("Fix  critical vulnerabilities", HighVulns(data)) >>
        ELSE << >>)

GenerateExecutiveReport(data, now) ==
    [ report_metadata |-> GenerateReportMetadata(now),
      executive_summary |-> ReportExecutiveSummary(data),
      key_findings |-> ExtractKeyFindings(data),
      risk_assessment |-> ExtractRiskAssessment(data),
      compliance_status |-> ExtractComplianceStatus(data),
      recommendations |-> GenerateExecutiveRecommendations(data),
      next_steps |-> GenerateNextSteps ]

GenerateTechnicalSummary(data) ==
    [ total_files_analyzed |->
          Get(StageGet(data, "repository_analysis", "structure", EmptyDict),
              "total_files", 0),
      technologies_detected |->
          StageGet(data, "repository_analysis", "technologies", EmptyDict),
      security_patterns_found |-> Len(GateResultsOf(data)),
      vulnerability_distribution |->
          Get(Get(ScanResultsOf(data), "vulnerabilities", EmptyDict),
              "severity_breakdown", EmptyDict) ]

GenerateTechnicalRecommendations(data) ==
    LET vulns == VulnerabilityList(data)
    IN  [ i \in DOMAIN vulns |->
            [ type |-> "Vulnerability Fix",
              file |-> Get(vulns[i], "file", ""),
              line |-> Get(vulns[i], "line", 0),
              recommendation |-> Get(vulns[i], "recommendation", ""),
              severity |-> Get(vulns[i], "severity", "Low") ] ]

GenerateTechnicalReport(data, now) ==
    [ report_metadata |-> GenerateReportMetadata(now),
      technical_summary |-> GenerateTechnicalSummary(data),
      detailed_analysis |->
          [ repository_analysis |-> Get(data, "repository_analysis", EmptyDict),
            security_scan |-> Get(data, "security_scan", EmptyDict),
            gate_validation |-> Get(data, "gate_validation", EmptyDict),
            evidence_collection |-> Get(data, "evidence_collection", EmptyDict) ],
      vulnerability_details |-> VulnerabilityList(data),
      gate_details |-> GateResultsOf(data),
      technical_recommendations |-> GenerateTechnicalRecommendations(data),
      implementation_guide |->
          [ immediate_actions |->
                    << "Fix critical vulnerabilities", "Address failed security gates",
                       "Implement missing security controls" >>,
                short_term_actions |->
                    << "Enhance monitoring and logging", "Implement automated security scanning",
                       "Conduct security training" >>,
                long_term_actions |->
                    << "Establish security governance", "Implement DevSecOps practices",
                       "Regular security assessments" >> ] ]

\* ReportGenerationTool._generate_compliance_summary
ReportComplianceSummary(data) ==
    LET compliance_results == ComplianceResultsOf(data)
        keys == compliance_results.keys
        IsCompliant(framework) ==
            Get(compliance_results.at[framework], "compliance_status", None) = "Compliant"
    IN  [ frameworks_checked |-> keys,
          compliant_frameworks |-> SelectSeq(keys, IsCompliant),
          non_compliant_frameworks |->
              SelectSeq(keys, LAMBDA framework : ~IsCompliant(framework)),
          overall_compliance_score |->
              IF keys # << >>
              THEN RDiv(RSum(keys, 1, LAMBDA framework :
                            Get(compliance_results.at[framework], "overall_score", R0)),
                        FromInt(Len(keys)))
              ELSE R0 ]

\* the analysis data after _extract_compliance_gaps, which writes the
\* framework name into the gap records of the data it was given
DataAfterExtractComplianceGaps(data) ==
    IF Has(data, "compliance_check") /\ Has(data["compliance_check"], "compliance_results")
    THEN LET compliance_check == data["compliance_check"]
             compliance_results == compliance_check["compliance_results"]
             \* gap["framework"] = framework on every gap of one result
             TagGaps(result, framework) ==
                 IF Has(result, "gaps")
                 THEN [ key \in DOMAIN result |->
                          IF key = "gaps"
                          THEN [ i \in DOMAIN result["gaps"] |->
                                   ("framework" :> framework) @@ result["gaps"][i] ]
                          ELSE result[key] ]
                 ELSE result
             tagged ==
                 OrderedDict(compliance_results.keys,
                     [ framework \in DOMAIN compliance_results.at |->
                         TagGaps(compliance_results.at[framework], framework) ])
         IN  [ stage \in DOMAIN data |->
                 IF stage = "compliance_check"
                 THEN [ key \in DOMAIN compliance_check |->
                          IF key = "compliance_results" THEN tagged
                          ELSE compliance_check[key] ]
                 ELSE data[stage] ]
    ELSE data

\* the list _extract_compliance_gaps returns
ExtractComplianceGaps(data) ==
    LET compliance_results == ComplianceResultsOf(DataAfterExtractComplianceGaps(data))
        keys == compliance_results.keys
    IN  ConcatAll([ i \in DOMAIN keys |->
            Get(compliance_results.at[keys[i]], "gaps", << >>) ], 1)

ReportComplianceRecommendations(data) ==
    LET open == NonCompliantFrameworks(data)
    IN  [ i \in DOMAIN open |-> Format("Achieve  compliance", open[i]) ]

\* the report holds the compliance_check object itself, so it shows the gap
\* records as _extract_compliance_gaps left them
GenerateComplianceReport(data, now) ==
    [ report_metadata |-> GenerateReportMetadata(now),
      compliance_summary |-> ReportComplianceSummary(data),
      compliance_results |->
          Get(DataAfterExtractComplianceGaps(data), "compliance_check", EmptyDict),
      compliance_gaps |-> ExtractComplianceGaps(data),
      remediation_plan |->
          [ immediate_remediation |->
                    << "Fix critical compliance gaps", "Address high-priority security issues",
                       "Implement missing controls" >>,
                short_term_remediation |->
                    << "Achieve compliance for all frameworks", "Implement monitoring and alerting",
                       "Establish audit trails" >>,
                long_term_remediation |->
                    << "Maintain ongoing compliance", "Regular compliance assessments",
                       "Continuous improvement" >> ],
      compliance_recommendations |-> ReportComplianceRecommendations(data),
      audit_trail |->
          [ analysis_timestamp |-> now,
                tools_used |-> << "Repository Analysis Tool", "Security Scanning Tool", "Gate Validation Tool",
                    "Evidence Collection Tool", "Security Analysis Tool", "Compliance Check Tool",
                    "LLM Analysis Tool" >>,
                data_sources |->
                    << "Code Repository", "Security Scans", "External Evidence",
                       "Compliance Frameworks" >> ] ]

\* _format_report with _generate_html_report and _generate_markdown_report:
\* the text, by the format and the values written into it
FormatReport(report, output_format) ==
    LET metadata == Get(report, "report_metadata", EmptyDict)
        summary == Get(report, "executive_summary", EmptyDict)
        json == [format |-> "json", body |-> report]
        html ==
            [ format |-> "html",
              generated_at |-> Get(metadata, "generated_at", ""),
              report_id |-> Get(metadata, "report_id", ""),
              sections |->
                  IF Has(report, "executive_summary")
                  THEN << [ overall_security_score |->
                                Get(summary, "overall_security_score", 0),
                            risk_level |-> Get(summary, "risk_level", "Unknown") ] >>
                  ELSE << >> ]
        markdown ==
            [ format |-> "markdown",
              report_id |-> Get(metadata, "report_id", ""),
              generated_at |-> Get(metadata, "generated_at", ""),
              sections |->
                  IF Has(report, "executive_summary")
                  THEN << [ overall_security_score |->
                                Get(summary, "overall_security_score", 0),
                            risk_level |-> Get(summary, "risk_level", "Unknown"),
                            gate_compliance_rate |->
                                Get(summary, "gate_compliance_rate", R0),
                            total_vulnerabilities |->
                                Get(summary, "total_vulnerabilities", 0),
                            critical_vulnerabilities |->
                                Get(summary, "critical_vulnerabilities", 0) ] >>
                  ELSE << >> ]
    IN  IF output_format = "json" THEN json
        ELSE IF output_format = "html" THEN html
        ELSE IF output_format = "markdown" THEN markdown
        ELSE json

\* the files on disk after _save_report: open() raising is caught and only
\* printed; open(output_path, 'w') cannot create /readonly/report.json
SaveReport(files, formatted_report, output_path) ==
    IF output_path \in {"/readonly/report.json"} THEN files
    ELSE (output_path :> formatted_report) @@ files

IsFalsyOutputPathEmptyOnly(output_path) == output_path = ""

\* "if output_path": None (the key is missing) and "" are falsy
IsFalsyOutputPath(output_path) == output_path \in {None, ""}

GenerateReportOutcomeNoGuard(args, now, files) ==
    LET data == args.analysis_data
        report == GenerateComprehensiveReport(data, now)
        formatted_report == FormatReport(report, args.output_format)
    IN  [ result |->
              [ success |-> TRUE,
                report_type |-> args.report_type,
                output_format |-> args.output_format,
                report |-> report,
                formatted_report |-> formatted_report,
                output_path |-> args.output_path ],
          data |-> data,
          files |->
              IF IsFalsyOutputPath(args.output_path) THEN files
              ELSE SaveReport(files, formatted_report, args.output_path) ]

\* ReportGenerationTool.run_async: the returned dictionary, the analysis data
\* as the call leaves it and the files on disk after it
GenerateReportOutcome(args, now, files) ==
    IF IsFalsyData(args.analysis_data)
    THEN [ result |-> [ success |-> FALSE,
                        error |-> "Analysis data is required for report generation" ],
           data |-> args.analysis_data,
           files |-> files ]
    ELSE LET data == args.analysis_data
             report ==
                 IF args.report_type = "comprehensive"
                 THEN GenerateComprehensiveReport(data, now)
                 ELSE IF args.report_type = "executive"
                 THEN GenerateExecutiveReport(data, now)
                 ELSE IF args.report_type = "technical"
                 THEN GenerateTechnicalReport(data, now)
                 ELSE IF args.report_type = "compliance"
                 THEN GenerateComplianceReport(data, now)
                 ELSE GenerateComprehensiveReport(data, now)
             formatted_report == FormatReport(report, args.output_format)
         IN  [ result |->
                   [ success |-> TRUE,
                     report_type |-> args.report_type,
                     output_format |-> args.output_format,
                     report |-> report,
                     formatted_report |-> formatted_report,
                     output_path |-> args.output_path ],
               data |->
                   IF args.report_type = "compliance"
                   THEN DataAfterExtractComplianceGaps(data)
                   ELSE data,
               files |->
                   IF IsFalsyOutputPath(args.output_path) THEN files
                   ELSE SaveReport(files, formatted_report, args.output_path) ]

-----------------------------------------------------------------------------
(* Tool calls *)

\* Each handler is one action: it records the call and what it returned in
\* last and changes the files it writes.  analysis_data is the dictionary the
\* caller holds; a handler that is given it works on that very object.

ScanCode(args) ==
    /\ last' = [op |-> "scan_code", args |-> args, result |-> ScanCodeResult(args)]
    /\ UNCHANGED <<fs, written>>

AnalyzeSecurity(args) ==
    /\ last' = [op |-> "analyze_security", args |-> args,
                result |-> AnalyzeSecurityResult(args)]
    /\ UNCHANGED <<fs, written>>

CheckCompliance(args) ==
    /\ last' = [op |-> "check_compliance", args |-> args,
                result |-> CheckComplianceResult(args)]
    /\ UNCHANGED <<fs, written>>

GenerateReport(args, now) ==
    LET outcome == GenerateReportOutcome(args, now, written)
    IN  /\ last' = [op |-> "generate_report", args |-> args, result |-> outcome.result]
        /\ written' = outcome.files
        /\ analysis_data' =
               IF IsFalsyData(args.analysis_data) THEN analysis_data ELSE outcome.data
        /\ UNCHANGED fs

-----------------------------------------------------------------------------
(* The analysis workflow: scanning, gate validation, security analysis,
   compliance check and report generation, each stage run at most once and in
   this order on one repository *)

StageRank(op) ==
    CASE op = "none" -> 0
      [] op = "scan_code" -> 1
      [] op = "validate_gates" -> 2
      [] op = "analyze_security" -> 3
      [] op = "check_compliance" -> 4
      [] op = "generate_report" -> 5

\* the caller keeps the result of a stage that succeeded under the stage's
\* key of the analysis data
Keep(stage) ==
    analysis_data' =
        IF last'.result.success THEN (stage :> last'.result) @@ analysis_data
        ELSE analysis_data

\* the repositories the workflow runs on: one source file with a logging
\* call; a configuration file, a dependency manifest and a settings file;
\* an unreadable file next to a test; a source file next to a file of the
\* test cache and a file of a dependency cache; a single file with one line
\* that sets a password
WorkflowRepositories ==
    LET FileOf(path) ==
            CHOOSE file \in FileKinds \cup
                { [path |-> "/repo/package.json", dirs |-> << >>, ext |-> ".json",
                   readable |-> TRUE,
                   lines |-> << "\"express\": \"latest\"",
                                "\"version\": \"0.0.1\"" >>],
                  [path |-> "/repo/.pytest_cache/v/cache/lastfailed.json",
                   dirs |-> << ".pytest_cache", "v", "cache" >>, ext |-> ".json",
                   readable |-> TRUE,
                   lines |-> << "password = \"abc123xyz\"", "" >>] } :
                file.path = path
    IN  { << FileOf("/repo/app.py") >>,
          << FileOf("/repo/.env"), FileOf("/repo/package.json"),
             FileOf("/repo/src/settings.json") >>,
          << FileOf("/repo/blob.py"), FileOf("/repo/tests/test_retry.py") >>,
          << FileOf("/repo/app.py"),
             FileOf("/repo/.pytest_cache/v/cache/lastfailed.json"),
             FileOf("/repo/src/node_modules/lib/index.js") >>,
          << FileOf("/repo/.env") >> }

\* a report an earlier run left on disk
ExistingReport == "/out/report.json" :> [format |-> "json", body |-> EmptyDict]

Init ==
    /\ fs \in WorkflowRepositories
    /\ written \in {EmptyDict, ExistingReport}
    /\ analysis_data = EmptyDict
    /\ last = NoCall

\* a scan without a path, a comprehensive scan, a dependency scan and a
\* secrets scan
RunScanCode ==
    /\ StageRank(last.op) < 1
    /\ \E args \in { [repository_path |-> None, scan_type |-> "comprehensive"],
                     [repository_path |-> RepoRoot, scan_type |-> "comprehensive"],
                     [repository_path |-> RepoRoot, scan_type |-> "dependencies"],
                     [repository_path |-> RepoRoot, scan_type |-> "secrets"] } :
           ScanCode(args) /\ Keep("security_scan")

\* a validation without a path, of the default gates, of a list with a
\* non-string identifier, and of the gates the compliance controls name
RunValidateGates ==
    /\ StageRank(last.op) < 2
    /\ \E args \in { [repository_path |-> None, gates |-> GateList(<< >>),
                      scan_depth |-> "comprehensive"],
                     [repository_path |-> RepoRoot, gates |-> GateList(<< >>),
                      scan_depth |-> "comprehensive"],
                     [repository_path |-> RepoRoot,
                      gates |-> GateList(<< NonStringGate, "AVOID_LOGGING_SECRETS" >>),
                      scan_depth |-> "deep"],
                     [repository_path |-> RepoRoot,
                      gates |-> GateList(<< "AUTHENTICATION", "AUTHORIZATION",
                                            "ALERTING_ACTIONABLE", "STRUCTURED_LOGS",
                                            "AUDIT_TRAIL", "ERROR_HANDLING" >>),
                      scan_depth |-> "comprehensive"] } :
           ValidateGates(args) /\ Keep("gate_validation")

\* a downstream tool is handed the caller's analysis data or none
RunAnalyzeSecurity ==
    /\ StageRank(last.op) < 3
    /\ \E args \in [ analysis_data : {EmptyDict, analysis_data},
                     analysis_type : {"comprehensive"} ]
                   \cup [ analysis_data : {analysis_data},
                          analysis_type : {"risk_assessment"} ] :
           AnalyzeSecurity(args) /\ Keep("security_analysis")

RunCheckCompliance ==
    /\ StageRank(last.op) < 4
    /\ \E args \in [ analysis_data : {EmptyDict, analysis_data},
                     frameworks : {DefaultFrameworks} ]
                   \cup [ analysis_data : {analysis_data},
                          frameworks : {<< "SOC2", "HIPAA" >>} ] :
           CheckCompliance(args) /\ Keep("compliance_check")

\* a report without data onto the path of the earlier report, and every
\* report type on the caller's data: kept in memory, written, or written to
\* a path that cannot be created; now is the reading of datetime.now()
RunGenerateReport ==
    /\ StageRank(last.op) < 5
    /\ \E args \in [ analysis_data : {EmptyDict}, report_type : {"comprehensive"},
                     output_format : {"json"}, output_path : {"/out/report.json"} ]
                   \cup
                   { [ analysis_data |-> analysis_data, report_type |-> report_type,
                       output_format |-> out[1], output_path |-> out[2] ] :
                       report_type \in {"comprehensive", "executive", "technical",
                                        "compliance"},
                       out \in { <<"json", None>>, <<"html", "/out/report.json">>,
                                 <<"markdown", "/readonly/report.json">> } },
          now \in {"2025-01-01T09:00:00", "2025-01-02T17:30:00"} :
           GenerateReport(args, now)

Next ==
    \/ RunScanCode
    \/ RunValidateGates
    \/ RunAnalyzeSecurity
    \/ RunCheckCompliance
    \/ RunGenerateReport

Spec == Init /\ [][Next]_vars

-----------------------------------------------------------------------------
(* Direct calls of the security analysis on analysis data a caller built *)

MaxGateResults == 2

MaxHighVulns == 3

MaxMediumVulns == 2

\* the analysis data of a caller: gate results as the validator returns
\* them, one kind per status; the scan stage not run, run without the
\* vulnerability scan, or run with any number of high and medium findings;
\* per evidence source no record, a collected one, a failed one, or a record
\* that carries no success mark
AnalysisInputs ==
    LET GateResultKinds ==
            { [gate_name |-> "AUTHENTICATION", status |-> "PASS", score |-> R100],
              [gate_name |-> "AUTHENTICATION", status |-> "FAIL",
               score |-> FromInt(25)],
              [gate_name |-> "STRUCTURED_LOGS", status |-> "WARNING",
               score |-> FromInt(50)],
              [gate_name |-> "ERROR_HANDLING", status |-> "ERROR", score |-> R0],
              [gate_name |-> "RETRY_LOGIC", status |-> "NOT_APPLICABLE",
               score |-> R0] }
        GateStageInputs ==
            { [success |-> TRUE, validation_results |-> results] :
                results \in UNION { [1..n -> GateResultKinds] :
                                    n \in 0..MaxGateResults } }
        VulnerabilityFindings(high, medium) ==
            [ i \in 1..(high + medium) |->
                [ file |-> "/repo/app.py", line |-> i, line_content |-> "eval(x)",
                  type |-> IF i <= high THEN "Code Injection" ELSE "XSS",
                  severity |-> IF i <= high THEN "High" ELSE "Medium",
                  pattern |-> IF i <= high THEN "eval\\s*\\("
                              ELSE "xss|cross.*site.*scripting" ] ]
        ScanStageInputs ==
            { EmptyDict,
              "security_scan" :>
                  [ success |-> TRUE,
                    scan_results |->
                        [ secrets |-> [ total_secrets |-> 0, secrets |-> << >>,
                                        risk_level |-> "Low" ] ] ] }
                \cup
            { "security_scan" :>
                  [ success |-> TRUE,
                    scan_results |->
                        [ vulnerabilities |->
                            [ total_vulnerabilities |-> high + medium,
                              vulnerabilities |-> VulnerabilityFindings(high, medium),
                              severity_breakdown |->
                                  [High |-> high, Medium |-> medium, Low |-> 0] ] ] ] :
                high \in 0..MaxHighVulns, medium \in 0..MaxMediumVulns }
        EvidenceRecord(source, outcome) ==
            IF outcome = "ok" THEN source :> [success |-> TRUE]
            ELSE IF outcome = "failed"
            THEN source :> [success |-> FALSE, error |-> "timeout"]
            ELSE IF outcome = "unmarked" THEN source :> [events |-> 0]
            ELSE EmptyDict
        EvidenceStageInputs ==
            { "evidence_collection" :>
                  [ success |-> TRUE,
                    evidence_data |-> EvidenceRecord("splunk", a)
                                      @@ EvidenceRecord("appdynamics", b) ] :
                a \in {"none", "ok", "failed"}, b \in {"none", "failed", "unmarked"} }
    IN  { ("gate_validation" :> gates) @@ scan @@ evidence :
            gates \in GateStageInputs, scan \in ScanStageInputs,
            evidence \in EvidenceStageInputs }

InitAnalyze ==
    /\ fs = << >>
    /\ written = EmptyDict
    /\ analysis_data \in AnalysisInputs
    /\ last = NoCall

\* one call on the caller's data, or without data
NextAnalyze ==
    /\ last = NoCall
    /\ \E args \in [ analysis_data : {analysis_data},
                     analysis_type : {"comprehensive", "threat_modeling"} ]
                   \cup [ analysis_data : {EmptyDict}, analysis_type : {"comprehensive"} ] :
           AnalyzeSecurity(args)
    /\ UNCHANGED analysis_data

SpecAnalyze == InitAnalyze /\ [][NextAnalyze]_vars

-----------------------------------------------------------------------------
(* Direct calls of the helper functions of the analysis tools *)

MaxRiskScore == 100

MaxFailedGates == 3

MaxOtherGates == 2

MaxHighFindings == 11

MaxFindings == 4

\* analysis data a caller hands to the aggregate functions: some failed
\* gates followed by gates of the other statuses, and a scan stage without
\* the vulnerability scan or with some number of high findings
DirectInputs ==
    LET Gate(status, score) ==
            [gate_name |-> "AUTHENTICATION", status |-> status, score |-> score]
        Others ==
            { Gate("PASS", R100), Gate("WARNING", FromInt(50)),
              Gate("ERROR", R0), Gate("NOT_APPLICABLE", R0) }
        Scan(high) ==
            "security_scan" :>
                [ success |-> TRUE,
                  scan_results |->
                      IF high < 0
                      THEN [ secrets |-> [ total_secrets |-> 0, secrets |-> << >>,
                                           risk_level |-> "Low" ] ]
                      ELSE [ vulnerabilities |->
                               [ total_vulnerabilities |-> high,
                                 severity_breakdown |->
                                     [High |-> high, Medium |-> 0, Low |-> 0] ] ] ]
    IN  { ("gate_validation" :>
              [ success |-> TRUE,
                validation_results |->
                    [ i \in 1..failed |-> Gate("FAIL", FromInt(25)) ] \o others ])
          @@ Scan(high) :
            failed \in 0..MaxFailedGates,
            others \in UNION { [1..n -> Others] : n \in 0..MaxOtherGates },
            high \in (-1)..MaxHighFindings }

\* analysis data a caller hands to the compliance check: each gate a control
\* names absent, passed or failed; no risk assessment, or one of a low or a
\* high level; no vulnerability scan, or one with or without a high finding
ComplianceInputs ==
    LET names == << "AUTHENTICATION", "AUTHORIZATION", "ALERTING_ACTIONABLE",
                    "STRUCTURED_LOGS", "AUDIT_TRAIL", "ERROR_HANDLING" >>
        Gates(status) ==
            ConcatAll([ i \in DOMAIN names |->
                IF status[names[i]] = "absent" THEN << >>
                ELSE << [ gate_name |-> names[i], status |-> status[names[i]],
                          score |-> IF status[names[i]] = "PASS" THEN R100 ELSE R0 ] >> ], 1)
        Risk(level) ==
            IF level = "absent" THEN EmptyDict
            ELSE "security_analysis" :>
                     [ success |-> TRUE,
                       analysis_results |->
                           [ risk_assessment |-> [ risk_level |-> level ] ] ]
        Scan(high) ==
            IF high < 0 THEN EmptyDict
            ELSE "security_scan" :>
                     [ success |-> TRUE,
                       scan_results |->
                           [ vulnerabilities |->
                               [ total_vulnerabilities |-> high,
                                 severity_breakdown |->
                                     [High |-> high, Medium |-> 0, Low |-> 0] ] ] ]
    IN  { ("gate_validation" :>
              [ success |-> TRUE, validation_results |-> Gates(status) ])
          @@ Risk(level) @@ Scan(high) :
            status \in [ { names[i] : i \in DOMAIN names } -> {"absent", "PASS", "FAIL"} ],
            level \in {"absent", "Low", "High"},
            high \in (-1)..1 }

\* one direct call: the risk level of a risk score; the validation summary,
\* the risk assessment or the report-level security score of analysis data;
\* the compliance check of analysis data against the four frameworks; or the
\* severity breakdown of a list of findings of the severities the scanners
\* assign; or the recommendations of a gate with or without a rule of its
\* own, for an evidence count and an evidence list
NextDirect ==
    /\ last = NoCall
    /\ UNCHANGED <<fs, written, analysis_data>>
    /\ \/ \E risk_score \in 0..MaxRiskScore :
             last' = [ op |-> "_determine_risk_level",
                       risk_score |-> risk_score,
                       result |-> DetermineRiskLevel(risk_score) ]
       \/ \E data \in DirectInputs :
             SummarizeResults(data["gate_validation"].validation_results)
       \/ \E data \in DirectInputs :
             last' = [ op |-> "_perform_risk_assessment",
                       analysis_data |-> data,
                       result |-> PerformRiskAssessment(data) ]
       \/ \E data \in DirectInputs :
             last' = [ op |-> "_calculate_overall_security_score",
                       analysis_data |-> data,
                       result |-> CalculateOverallSecurityScore(data) ]
       \/ \E data \in ComplianceInputs :
             CheckCompliance([analysis_data |-> data, frameworks |-> DefaultFrameworks])
       \/ \E gate_name \in { "STRUCTURED_LOGS", "AVOID_LOGGING_SECRETS",
                              "AUTOMATED_TESTS", "AUTO_SCALE", "AUTHENTICATION",
                              "RETRY_LOGIC" },
             patterns_found \in 0..MaxEvidence,
             evidence \in { << >>,
                            << [ file |-> "/repo/app.py", line |-> 1,
                                 line_content |-> "logger.info(\"start\")",
                                 pattern |-> "logger\\.(info|warn|error|debug)",
                                 description |-> "Structured logging calls" ] >> } :
             last' = [ op |-> "_generate_gate_recommendations",
                       gate_name |-> gate_name,
                       patterns_found |-> patterns_found,
                       evidence |-> evidence,
                       result |-> GenerateGateRecommendations(gate_name, patterns_found,
                                                              evidence) ]
       \/ \E issues \in UNION { [1..n -> [ file : {"/repo/app.py"},
                                            severity : {"High", "Medium", "Low"} ]] :
                                  n \in 0..MaxFindings } :
             last' = [ op |-> "_get_severity_breakdown",
                       issues |-> issues,
                       total |-> Len(issues),
                       result |-> GetSeverityBreakdown(issues) ]

SpecDirect == InitScore /\ [][NextDirect]_vars

\* one call of the gate validation on a repository, or one direct call of a
\* helper function
NextOrder ==
    \/ NextValidate
    \/ fs = << >> /\ NextDirect

SpecOrder == InitValidate /\ [][NextOrder]_vars

\* one compliance check of analysis data whose gates all have the same status
\* against a caller's list of framework names: empty, supported, unsupported
\* ("HIPAA"), mixed or repeated
NextFrameworks ==
    /\ last = NoCall
    /\ UNCHANGED <<fs, written, analysis_data>>
    /\ \E data \in { input \in ComplianceInputs :
                        LET results == input["gate_validation"].validation_results
                        IN  /\ Len(results) \in {0, 6}
                            /\ \A i \in DOMAIN results :
                                   results[i].status = results[1].status },
          frameworks \in { << >>, << "Enterprise" >>, << "HIPAA" >>,
                           << "SOC2", "HIPAA" >>, << "Enterprise", "SOC2" >>,
                           << "Enterprise", "Enterprise" >>,
                           << "NIST", "HIPAA", "ISO27001", "PCI" >> } :
          CheckCompliance([analysis_data |-> data, frameworks |-> frameworks])

SpecFrameworks == InitScore /\ [][NextFrameworks]_vars

-----------------------------------------------------------------------------
(* Properties of the gate scorer, checked under SpecScore *)

IsScoreCall == last.op = "_calculate_gate_score"

IsStatusCall == last.op = "_determine_gate_status"

InRange0to100(score) == RLe(R0, score) /\ RLe(score, R100)

\* C1: for every gate identifier, catalogued or not, and every pair of
\* non-negative integers (evidence_count, files_analyzed), the score the gate
\* scorer returns lies in [0,100].
C1_ScoreInRange == IsScoreCall => InRange0to100(last.score)

\* the cap acted: more evidence than files, on a gate outside the catalog
C1_Witness ==
    /\ IsScoreCall
    /\ last.gate_name = "AUTHENTICATION"
    /\ last.files_analyzed > 0
    /\ last.patterns_found > last.files_analyzed
    /\ last.score = R100

\* C2: for every gate, the overridden ones included, and every
\* evidence_count, files_analyzed = 0 gives score 0 and a status other than
\* PASS.
C2_ZeroFilesScoreZero ==
    (IsScoreCall /\ last.files_analyzed = 0)
        => (last.score = R0 /\ last.status # "PASS")

\* the inverted gate with evidence but no file analyzed
C2_Witness ==
    /\ IsScoreCall
    /\ last.files_analyzed = 0
    /\ last.patterns_found > 0
    /\ last.gate_name = "AVOID_LOGGING_SECRETS"
    /\ last.score = R0
    /\ last.status = "FAIL"

\* C3: the status is fixed by (score, evidence_count) in priority order:
\* score >= 80 PASS; else score >= 50 WARNING; else evidence_count = 0
\* NOT_APPLICABLE; else FAIL; exactly one of the four, 80 and 50 inclusive.
C3_StatusByThresholds ==
    (IsScoreCall \/ IsStatusCall) =>
        /\ last.status \in {"PASS", "WARNING", "NOT_APPLICABLE", "FAIL"}
        /\ last.status = "PASS" <=> 80 * last.score[2] <= last.score[1]
        /\ last.status = "WARNING" <=>
              /\ last.score[1] < 80 * last.score[2]
              /\ 50 * last.score[2] <= last.score[1]
        /\ last.status = "NOT_APPLICABLE" <=>
              /\ last.score[1] < 50 * last.score[2]
              /\ last.patterns_found = 0
        /\ last.status = "FAIL" <=>
              /\ last.score[1] < 50 * last.score[2]
              /\ last.patterns_found # 0

\* the lower boundary: exactly 50 classifies WARNING
C3_Witness ==
    /\ IsStatusCall
    /\ last.score = FromInt(50)
    /\ last.patterns_found = 0
    /\ last.status = "WARNING"

\* the reference values of C4, written without min and max
RefBaseline(e, f) == IF e >= f THEN R100 ELSE Rat(100 * e, f)

RefAutomatedTests(e, f) == IF 2 * e >= f THEN R100 ELSE Rat(200 * e, f)

RefAvoidSecrets(e, f) == IF e >= f THEN R0 ELSE Rat(100 * (f - e), f)

\* C4: with files_analyzed > 0, AUTOMATED_TESTS scores double the uncapped
\* ratio capped at 100, AVOID_LOGGING_SECRETS scores max(0, 100 - baseline),
\* and a gate without an override scores the baseline min(100, e/f*100).
C4_ScoreIsReference ==
    (IsScoreCall /\ last.files_analyzed > 0) =>
        LET e == last.patterns_found
            f == last.files_analyzed
        IN  /\ last.gate_name = "AUTOMATED_TESTS"
                  => /\ last.score = RefAutomatedTests(e, f)
                     /\ last.score = RMin(R100, RMul(FromInt(2), Rat(100 * e, f)))
            /\ last.gate_name = "AVOID_LOGGING_SECRETS"
                  => last.score = RefAvoidSecrets(e, f)
            /\ last.gate_name \notin
                  {"AUTOMATED_TESTS", "AVOID_LOGGING_SECRETS", "STRUCTURED_LOGS"}
                  => last.score = RefBaseline(e, f)

\* the test gate at a quarter of the files: 50, twice the baseline 25
C4_Witness ==
    /\ IsScoreCall
    /\ last.gate_name = "AUTOMATED_TESTS"
    /\ last.patterns_found = 1
    /\ last.files_analyzed = 4
    /\ last.score = FromInt(50)

\* C5 as stated: with files_analyzed fixed and positive, the
\* AVOID_LOGGING_SECRETS score strictly decreases whenever evidence_count
\* increases: score(a) > score(b) for all a < b.
C5_StrictlyDecreasing ==
    (IsScoreCall /\ last.gate_name = "AVOID_LOGGING_SECRETS"
                 /\ last.files_analyzed > 0) =>
        \A a \in 0..(last.patterns_found - 1) :
            RGt(CalculateGateScore(a, last.files_analyzed, last.gate_name),
                last.score)

\* C5 amended: with files_analyzed fixed and positive, the
\* AVOID_LOGGING_SECRETS score never increases when evidence_count increases
\* and strictly decreases while the smaller count is below files_analyzed;
\* from evidence_count = files_analyzed on it stays 0.
C5_DecreasingUntilSaturation ==
    (IsScoreCall /\ last.gate_name = "AVOID_LOGGING_SECRETS"
                 /\ last.files_analyzed > 0) =>
        /\ \A a \in 0..(last.patterns_found - 1) :
              LET sa == CalculateGateScore(a, last.files_analyzed, last.gate_name)
              IN  /\ RGe(sa, last.score)
                  /\ a < last.files_analyzed => RGt(sa, last.score)
        /\ last.patterns_found >= last.files_analyzed => last.score = R0

\* evidence beyond saturation: the score is 0, as it was one match earlier
C5_Witness ==
    /\ IsScoreCall
    /\ last.gate_name = "AVOID_LOGGING_SECRETS"
    /\ last.files_analyzed = 2
    /\ last.patterns_found = 3
    /\ last.score = R0

-----------------------------------------------------------------------------
(* Properties of the validation summary, checked under SpecScore *)

IsSummaryCall == last.op = "_generate_validation_summary"

IsHundredth(x) == (100 * x[1]) % x[2] = 0

\* x is y rounded to the nearest hundredth
IsRounded2(x, y) ==
    /\ IsHundredth(x)
    /\ RLe(RSub(x, y), Rat(1, 200))
    /\ RLe(RSub(y, x), Rat(1, 200))

\* C9 as stated: total_gates is the list length, average_score is
\* sum(score)/total (0 for the empty list), compliance_rate is
\* passed/total*100 (0 for the empty list) and lies in [0,100].
C9_SummaryExact ==
    IsSummaryCall =>
        LET rs == last.validation_results
            n == Len(rs)
            passed == Cardinality({ i \in 1..n : rs[i].status = "PASS" })
        IN  /\ last.summary.total_gates = n
            /\ last.summary.average_score =
                  (IF n = 0 THEN R0 ELSE RDiv(SumScores(rs, 1), FromInt(n)))
            /\ last.summary.compliance_rate =
                  (IF n = 0 THEN R0 ELSE Rat(100 * passed, n))
            /\ InRange0to100(last.summary.compliance_rate)

\* C9 amended: total_gates is the list length; average_score is
\* sum(score)/total rounded to two decimals and compliance_rate is
\* passed/total*100 rounded to two decimals, both 0 for the empty list;
\* compliance_rate lies in [0,100].
C9_SummaryRounded ==
    IsSummaryCall =>
        LET rs == last.validation_results
            n == Len(rs)
            passed == Cardinality({ i \in 1..n : rs[i].status = "PASS" })
        IN  /\ last.summary.total_gates = n
            /\ IsRounded2(last.summary.average_score,
                  IF n = 0 THEN R0 ELSE RDiv(SumScores(rs, 1), FromInt(n)))
            /\ IsRounded2(last.summary.compliance_rate,
                  IF n = 0 THEN R0 ELSE Rat(100 * passed, n))
            /\ InRange0to100(last.summary.compliance_rate)
            /\ n = 0 => /\ last.summary.average_score = R0
                        /\ last.summary.compliance_rate = R0

\* one PASS among three results, one of them an ERROR: 33.33, not 100/3
C9_Witness ==
    /\ IsSummaryCall
    /\ Len(last.validation_results) = 3
    /\ last.validation_results[1].status = "PASS"
    /\ last.validation_results[2].status = "ERROR"
    /\ last.validation_results[3].status = "FAIL"
    /\ last.summary.compliance_rate = Rat(3333, 100)

-----------------------------------------------------------------------------
(* Properties of a validation run, checked under SpecValidate *)

IsValidateRun ==
    /\ last.op = "validate_gates"
    /\ ~IsFalsyPath(last.args.repository_path)
    /\ last.args.gates.iterable

RequestedGates ==
    IF IsFalsyGates(last.args.gates) THEN GetDefaultGates ELSE last.args.gates.items

\* C6: the STRUCTURED_LOGS score is min(100, baseline * 1.5) with the
\* baseline capped at 100 first; one analyzed file with one matching line
\* (evidence_count = 1, files_analyzed = 1) scores 100 with status PASS.
C6_StructuredLogsScore ==
    IsValidateRun =>
        \A i \in 1..Len(last.result.validation_results) :
            LET r == last.result.validation_results[i]
            IN  r.gate_name = "STRUCTURED_LOGS" =>
                  LET e == r.patterns_found
                      f == r.files_analyzed
                      baseline == IF f = 0 THEN R0
                                  ELSE IF e >= f THEN R100 ELSE Rat(100 * e, f)
                      weighted == Rat(3 * baseline[1], 2 * baseline[2])
                  IN  /\ r.score = (IF RLe(R100, weighted) THEN R100 ELSE weighted)
                      /\ (e = 1 /\ f = 1) => (r.score = R100 /\ r.status = "PASS")

\* scenario A: the repository holds one file, its only line logger.info("start")
C6_Witness ==
    /\ IsValidateRun
    /\ Len(fs) = 1
    /\ fs[1].lines = << "logger.info(\"start\")" >>
    /\ last.args.scan_depth = "comprehensive"
    /\ last.args.gates = GateList(<< "STRUCTURED_LOGS" >>)
    /\ last.result.validation_results[1].patterns_found = 1
    /\ last.result.validation_results[1].files_analyzed = 1
    /\ last.result.validation_results[1].score = R100
    /\ last.result.validation_results[1].status = "PASS"

\* the result of validating one gate on its own, same repository and depth
AloneResult(gate_name) ==
    ValidateGatesResult([last.args EXCEPT !.gates = GateList(<< gate_name >>)])
        .validation_results[1]

\* C7: a gate whose validation raises gets status ERROR, score 0, no evidence
\* and no recommendations; the run succeeds with one result per requested
\* gate in request order, and every other gate has the result it has when
\* validated without the failing gate.
C7_ErrorIsolatedToGate ==
    IsValidateRun =>
        /\ last.result.success
        /\ Len(last.result.validation_results) = Len(RequestedGates)
        /\ \A i \in 1..Len(last.result.validation_results) :
              LET r == last.result.validation_results[i]
              IN  /\ r.gate_name = RequestedGates[i]
                  /\ ~IsStr(RequestedGates[i]) =>
                        /\ r.status = "ERROR"
                        /\ r.score = R0
                        /\ r.evidence = << >>
                        /\ r.recommendations = << >>
                  /\ IsStr(RequestedGates[i]) =>
                        /\ r.status # "ERROR"
                        /\ r = AloneResult(RequestedGates[i])

\* the first gate raises, the second still passes on its evidence
C7_Witness ==
    /\ IsValidateRun
    /\ last.args.gates = GateList(<< NonStringGate, "STRUCTURED_LOGS" >>)
    /\ last.result.success
    /\ last.result.validation_results[1].status = "ERROR"
    /\ last.result.validation_results[2].status = "PASS"
    /\ last.result.validation_results[2].patterns_found > 0

-----------------------------------------------------------------------------
(* Missing arguments *)

\* the call was made without the argument the tool requires: no repository
\* path for the scanner and the validator, no analysis data for the others
MissingRequired(call) ==
    IF call.op \in {"scan_code", "validate_gates"}
    THEN call.args.repository_path = None
    ELSE /\ call.op \in {"analyze_security", "check_compliance", "generate_report"}
         /\ call.args.analysis_data = EmptyDict

\* C8: a call of any of the five tools without its required argument returns
\* exactly a failure flag and an error message, no scan or analysis result,
\* and leaves the repository, the files on disk and the caller's analysis
\* data as they were.
C8_MissingArgumentFails ==
    [][ (last' # last /\ MissingRequired(last'))
            => /\ last'.result.success = FALSE
               /\ DOMAIN last'.result = {"success", "error"}
               /\ last'.result.error \in
                      { "Repository path is required", "Analysis data is required",
                        "Analysis data is required for compliance checks",
                        "Analysis data is required for report generation" }
               /\ UNCHANGED <<fs, written, analysis_data>> ]_vars

\* the report generator was asked to write a report without analysis data
\* while an earlier report lay at the output path, after a scan succeeded
C8_Witness ==
    /\ last.op = "generate_report"
    /\ MissingRequired(last)
    /\ last.args.output_path = "/out/report.json"
    /\ ~last.result.success
    /\ written = ExistingReport
    /\ Has(analysis_data, "security_scan")

-----------------------------------------------------------------------------
(* Risk score *)

IsRiskAssessment ==
    /\ last.op = "analyze_security"
    /\ last.result.success
    /\ Has(last.result.analysis_results, "risk_assessment")

\* the number of gate results of the data with the given status
GatesWithStatus(data, status) ==
    Cardinality({ i \in DOMAIN data["gate_validation"].validation_results :
                    data["gate_validation"].validation_results[i].status = status })

\* the number of vulnerabilities of the given severity the scan reported
VulnsWithSeverity(data, severity) ==
    IF Has(data, "security_scan") /\ Has(data["security_scan"].scan_results, "vulnerabilities")
    THEN data["security_scan"].scan_results["vulnerabilities"].severity_breakdown[severity]
    ELSE 0

\* the evidence sources whose record is not marked successful
UnsuccessfulSources(data) ==
    { source \in DOMAIN data["evidence_collection"].evidence_data :
        LET record == data["evidence_collection"].evidence_data[source]
        IN  ~("success" \in DOMAIN record /\ record["success"] = TRUE) }

RefRiskScore(data) ==
    10 * GatesWithStatus(data, "FAIL")
    + 5 * GatesWithStatus(data, "WARNING")
    + 15 * VulnsWithSeverity(data, "High")
    + 8 * VulnsWithSeverity(data, "Medium")
    + 5 * Cardinality(UnsuccessfulSources(data))

\* C10: the risk score of a risk assessment is 10 per FAIL gate plus 5 per
\* WARNING gate plus 15 per high and 8 per medium vulnerability plus 5 per
\* evidence source not marked successful, without a cap; gates of any other
\* status add nothing.
C10_RiskScoreIsSum ==
    IsRiskAssessment =>
        last.result.analysis_results["risk_assessment"].risk_score
            = RefRiskScore(last.args.analysis_data)

\* an assessment where every term contributes, a gate of another status is
\* present in other runs, and the sum exceeds every level threshold
C10_Witness ==
    /\ IsRiskAssessment
    /\ GatesWithStatus(last.args.analysis_data, "FAIL") > 0
    /\ GatesWithStatus(last.args.analysis_data, "WARNING") > 0
    /\ VulnsWithSeverity(last.args.analysis_data, "High") > 0
    /\ VulnsWithSeverity(last.args.analysis_data, "Medium") > 0
    /\ UnsuccessfulSources(last.args.analysis_data) = {"splunk", "appdynamics"}
    /\ last.result.analysis_results["risk_assessment"].risk_score > 50

-----------------------------------------------------------------------------
(* Risk level *)

IsRiskLevelCall == last.op = "_determine_risk_level"

\* C11: the risk level is a total function of the risk score with inclusive
\* lower bounds: Critical from 50 on, High from 30 to below 50, Medium from
\* 15 to below 30 and Low below 15; in particular exactly 50 is Critical,
\* exactly 30 is High and exactly 15 is Medium.
C11_RiskLevelByThresholds ==
    IsRiskLevelCall =>
        /\ last.result \in {"Critical", "High", "Medium", "Low"}
        /\ (last.result = "Critical") <=> (last.risk_score >= 50)
        /\ (last.result = "High") <=> (30 <= last.risk_score /\ last.risk_score < 50)
        /\ (last.result = "Medium") <=> (15 <= last.risk_score /\ last.risk_score < 30)
        /\ (last.result = "Low") <=> (last.risk_score < 15)

\* the call on the score at the topmost threshold
C11_Witness ==
    /\ IsRiskLevelCall
    /\ last.risk_score = 50
    /\ last.result = "Critical"

-----------------------------------------------------------------------------
(* Gate results with status ERROR in the aggregates *)

HasErrorGate(results) == \E i \in DOMAIN results : results[i].status = "ERROR"

\* the analysis data with the ERROR gate results taken out
WithoutErrorGates(data) ==
    [ stage \in DOMAIN data |->
        IF stage = "gate_validation"
        THEN [ data[stage] EXCEPT !.validation_results =
                   SelectSeq(@, LAMBDA gate : gate.status # "ERROR") ]
        ELSE data[stage] ]

\* C12: a gate result with status ERROR is counted in total_gates and in the
\* denominator of compliance_rate, in none of the passed, failed, warning
\* and not-applicable counts, and it adds nothing to the risk score and to
\* the report-level security score; so the four counts sum to at most
\* total_gates, with equality exactly when every status is one of the four.
C12_ErrorGateInAggregates ==
    /\ IsSummaryCall =>
           LET rs == last.validation_results
               s == last.summary
               Count(status) == Cardinality({ i \in DOMAIN rs : rs[i].status = status })
               counted == s.passed_gates + s.failed_gates + s.warning_gates
                          + s.not_applicable_gates
           IN  /\ s.total_gates = Len(rs)
               /\ s.passed_gates = Count("PASS")
               /\ s.failed_gates = Count("FAIL")
               /\ s.warning_gates = Count("WARNING")
               /\ s.not_applicable_gates = Count("NOT_APPLICABLE")
               /\ counted <= s.total_gates
               /\ counted = s.total_gates - Count("ERROR")
               /\ (counted = s.total_gates) <=>
                      (\A i \in DOMAIN rs :
                          rs[i].status \in {"PASS", "FAIL", "WARNING", "NOT_APPLICABLE"})
               /\ IsRounded2(s.compliance_rate, Rat(100 * Count("PASS"), Max(1, Len(rs))))
               /\ (HasErrorGate(rs) /\ Count("PASS") > 0) =>
                      RGt(GenerateValidationSummary(
                              SelectSeq(rs, LAMBDA gate : gate.status # "ERROR")
                          ).compliance_rate,
                          s.compliance_rate)
    /\ last.op = "_perform_risk_assessment" =>
           last.result.risk_score
               = PerformRiskAssessment(WithoutErrorGates(last.analysis_data)).risk_score
    /\ last.op = "_calculate_overall_security_score" =>
           last.result
               = CalculateOverallSecurityScore(WithoutErrorGates(last.analysis_data))

\* the risk assessment of data with a failed, a passed and an ERROR gate
C12_Witness ==
    /\ last.op = "_perform_risk_assessment"
    /\ HasErrorGate(last.analysis_data["gate_validation"].validation_results)
    /\ Len(last.analysis_data["gate_validation"].validation_results) = 3
    /\ last.result.risk_score = 10

-----------------------------------------------------------------------------
(* Framework scores *)

IsComplianceCheck == last.op = "check_compliance" /\ last.result.success

\* the result of a framework of the last compliance check
FrameworkOf(framework) == last.result.compliance_results.at[framework]

\* the arithmetic mean of the control scores of a framework result
MeanControlScore(result) ==
    Rat(SumOver(result.controls, 1, LAMBDA control : control.score),
        Len(result.controls))

\* C13 as stated: every control score is 0 or 100, overall_score is the
\* arithmetic mean of the control scores, and the framework is Compliant
\* exactly when the mean is at least 80.
C13_ScoreIsMean ==
    IsComplianceCheck =>
        \A framework \in {"SOC2", "ISO27001", "NIST", "Enterprise"} :
            LET result == FrameworkOf(framework)
            IN  /\ \A i \in DOMAIN result.controls :
                       result.controls[i].score \in {0, 100}
                /\ result.overall_score = MeanControlScore(result)
                /\ (result.compliance_status = "Compliant")
                       <=> RGe(MeanControlScore(result), FromInt(80))
                /\ result.compliance_status \in {"Compliant", "Non-Compliant"}

\* C13: for each of the four frameworks and every analysis input, every
\* control score is 0 or 100, overall_score is the arithmetic mean of the
\* control scores rounded to two decimals, and the framework is Compliant
\* exactly when the unrounded mean is at least 80, otherwise Non-Compliant.
C13_ScoreIsRoundedMean ==
    IsComplianceCheck =>
        \A framework \in {"SOC2", "ISO27001", "NIST", "Enterprise"} :
            LET result == FrameworkOf(framework)
            IN  /\ \A i \in DOMAIN result.controls :
                       result.controls[i].score \in {0, 100}
                /\ IsRounded2(result.overall_score, MeanControlScore(result))
                /\ (result.compliance_status = "Compliant")
                       <=> RGe(MeanControlScore(result), FromInt(80))
                /\ result.compliance_status \in {"Compliant", "Non-Compliant"}

\* a check where Enterprise sits exactly at 80 and is Compliant while SOC2,
\* with six of seven controls, has a mean that is no hundredth
C13_Witness ==
    /\ IsComplianceCheck
    /\ FrameworkOf("Enterprise").overall_score = FromInt(80)
    /\ FrameworkOf("Enterprise").compliance_status = "Compliant"
    /\ MeanControlScore(FrameworkOf("SOC2")) = Rat(600, 7)
    /\ FrameworkOf("SOC2").overall_score = Rat(8571, 100)
    /\ FrameworkOf("SOC2").compliance_status = "Compliant"

-----------------------------------------------------------------------------
(* Control rules *)

\* the gate names a control is assessed by
ControlGates(control_id) ==
    CASE control_id \in {"CC6.1", "A.9.1", "AC-1"} -> {"AUTHENTICATION"}
      [] control_id \in {"CC6.2", "A.9.2", "AC-2"} -> {"AUTHORIZATION"}
      [] control_id \in {"CC6.3", "SI-4", "SEC-003"} -> {"ALERTING_ACTIONABLE"}
      [] control_id \in {"CC7.1", "A.12.4", "SEC-004"} -> {"STRUCTURED_LOGS"}
      [] control_id \in {"CC7.2", "AU-2"} -> {"AUDIT_TRAIL"}
      [] control_id \in {"CC9.1", "SEC-005"} -> {"ERROR_HANDLING"}
      [] OTHER -> {}

\* the gate results handed to the last compliance check
CheckedGates == last.args.analysis_data["gate_validation"].validation_results

\* one of the gates of a control is among the checked gates with status PASS
SomeGatePasses(control_id) ==
    \E i \in DOMAIN CheckedGates :
        /\ CheckedGates[i].gate_name \in ControlGates(control_id)
        /\ CheckedGates[i].status = "PASS"

\* the status a control gets when the check is handed the gate-validation
\* results alone
StatusOnGatesAlone(framework, i) ==
    CheckFrameworkCompliance(framework,
        "gate_validation" :> last.args.analysis_data["gate_validation"]).controls[i].status

\* C14 as stated: every control is Compliant exactly when one of its gates
\* is present with status PASS, and its status is the one the
\* gate-validation results alone give.
C14_ControlsDecidedByGates ==
    IsComplianceCheck =>
        \A framework \in {"SOC2", "ISO27001", "NIST", "Enterprise"} :
            \A i \in DOMAIN FrameworkOf(framework).controls :
                LET control == FrameworkOf(framework).controls[i]
                IN  /\ (control.status = "Compliant") <=> SomeGatePasses(control.control_id)
                    /\ control.status = StatusOnGatesAlone(framework, i)

\* C14: every control other than SOC2 CC8.1 and Enterprise SEC-001 and
\* SEC-002 has a fixed, possibly empty, set of gate names and is Compliant
\* exactly when one of them is present with status PASS; CC8.1 is Compliant
\* exactly when the risk level of the security analysis is Low or Medium,
\* SEC-001 exactly when at least four fifths of a non-empty list of gate
\* results have status PASS, SEC-002 exactly when a vulnerability scan is
\* present and reports no high-severity vulnerability; every control but
\* CC8.1 and SEC-002 has the status the gate-validation results alone give.
C14_ControlRules ==
    IsComplianceCheck =>
        \A framework \in {"SOC2", "ISO27001", "NIST", "Enterprise"} :
            \A i \in DOMAIN FrameworkOf(framework).controls :
                LET control == FrameworkOf(framework).controls[i]
                    data == last.args.analysis_data
                    passed == Cardinality({ k \in DOMAIN CheckedGates :
                                              CheckedGates[k].status = "PASS" })
                    rule ==
                        CASE control.control_id = "CC8.1" ->
                                 /\ Has(data, "security_analysis")
                                 /\ data["security_analysis"].analysis_results
                                        .risk_assessment.risk_level \in {"Low", "Medium"}
                          [] control.control_id = "SEC-001" ->
                                 /\ Len(CheckedGates) > 0
                                 /\ 5 * passed >= 4 * Len(CheckedGates)
                          [] control.control_id = "SEC-002" ->
                                 /\ Has(data, "security_scan")
                                 /\ data["security_scan"].scan_results
                                        .vulnerabilities.severity_breakdown.High = 0
                          [] OTHER -> SomeGatePasses(control.control_id)
                IN  /\ control.status \in {"Compliant", "Not Assessed"}
                    /\ (control.status = "Compliant") <=> rule
                    /\ control.control_id \notin {"CC8.1", "SEC-002"} =>
                           control.status = StatusOnGatesAlone(framework, i)

\* a check of data with a failed AUTHENTICATION gate, a passed AUTHORIZATION
\* gate and a low risk level: CC6.1 is not assessed, CC6.2 and CC8.1 are
\* Compliant
C14_Witness ==
    /\ IsComplianceCheck
    /\ \E k \in DOMAIN CheckedGates :
           CheckedGates[k].gate_name = "AUTHENTICATION" /\ CheckedGates[k].status = "FAIL"
    /\ FrameworkOf("SOC2").controls[1].control_id = "CC6.1"
    /\ FrameworkOf("SOC2").controls[1].status = "Not Assessed"
    /\ FrameworkOf("SOC2").controls[2].status = "Compliant"
    /\ FrameworkOf("SOC2").controls[6].control_id = "CC8.1"
    /\ FrameworkOf("SOC2").controls[6].status = "Compliant"
    /\ StatusOnGatesAlone("SOC2", 6) = "Not Assessed"

-----------------------------------------------------------------------------
(* No gate passing *)

\* five gate results, none with status PASS
NonePassingOfFive(validation_results) ==
    /\ Len(validation_results) = 5
    /\ \A i \in DOMAIN validation_results : validation_results[i].status # "PASS"

\* C15: the validation summary of five gate results of which none passes has
\* compliance_rate 0.0, and the compliance check of such gate results
\* against the four frameworks has overall_compliance_status
\* "Non-Compliant" whenever its average framework score is below 80.
C15_NonePassingNonCompliant ==
    /\ (last.op = "_generate_validation_summary"
            /\ NonePassingOfFive(last.validation_results))
           => /\ last.summary.compliance_rate = R0
              /\ last.summary.passed_gates = 0
    /\ (IsComplianceCheck /\ NonePassingOfFive(CheckedGates))
           => LET summary == last.result.compliance_summary
              IN  /\ summary.total_frameworks = 4
                  /\ RGt(FromInt(80), summary.average_compliance_score)
                         => summary.overall_compliance_status = "Non-Compliant"

\* a check of five failed gates with a low risk level and a clean
\* vulnerability scan: CC8.1 and SEC-002 are Compliant, the average score is
\* (100/7 + 20) / 4 and the overall status is "Non-Compliant"
C15_Witness ==
    /\ IsComplianceCheck
    /\ NonePassingOfFive(CheckedGates)
    /\ FrameworkOf("SOC2").controls[6].status = "Compliant"
    /\ FrameworkOf("Enterprise").controls[2].status = "Compliant"
    /\ last.result.compliance_summary.average_compliance_score = Rat(857, 100)
    /\ last.result.compliance_summary.overall_compliance_status = "Non-Compliant"

-----------------------------------------------------------------------------
(* Report-level security score *)

IsSecurityScoreCall == last.op = "_calculate_overall_security_score"

\* the analysis data with one more failed gate
WithFailedGate(data) ==
    [ data EXCEPT !["gate_validation"].validation_results =
          Append(@, [gate_name |-> "AUTHORIZATION", status |-> "FAIL", score |-> R0]) ]

\* the analysis data of a vulnerability scan with one more high-severity
\* vulnerability
WithHighVulnerability(data) ==
    [ data EXCEPT !["security_scan"].scan_results.vulnerabilities =
          [ total_vulnerabilities |-> @.total_vulnerabilities + 1,
            severity_breakdown |->
                [ @.severity_breakdown EXCEPT !.High = @ + 1 ] ] ]

\* C16: the report-level security score is
\* max(0, 100 - 5 * failed gates - 10 * high-severity vulnerabilities), lies
\* in [0,100] and does not increase when a failed gate or a high-severity
\* vulnerability is added.
C16_SecurityScoreFormula ==
    IsSecurityScoreCall =>
        LET data == last.analysis_data
            gates == data["gate_validation"].validation_results
            scan == data["security_scan"].scan_results
            failed == Cardinality({ i \in DOMAIN gates : gates[i].status = "FAIL" })
            high == IF "vulnerabilities" \in DOMAIN scan
                    THEN scan.vulnerabilities.severity_breakdown.High ELSE 0
            raw == 100 - 5 * failed - 10 * high
        IN  /\ last.result = (IF raw > 0 THEN raw ELSE 0)
            /\ last.result \in 0..100
            /\ CalculateOverallSecurityScore(WithFailedGate(data)) <= last.result
            /\ "vulnerabilities" \in DOMAIN scan =>
                   CalculateOverallSecurityScore(WithHighVulnerability(data)) <= last.result

\* three failed gates and nine high-severity vulnerabilities: 100 - 15 - 90
\* is below zero and the score is 0
C16_Witness ==
    /\ IsSecurityScoreCall
    /\ Len(FailedGates(last.analysis_data)) = 3
    /\ HighVulns(last.analysis_data) = 9
    /\ last.result = 0

-----------------------------------------------------------------------------
(* Persistence of the report *)

\* C17: a report generation writes a file only when the caller supplies an
\* output path, and then only that file; with no output path nothing is
\* written.  When the write fails nothing is written either and the call
\* still returns success = true with the report and the formatted report.
C17_WriteOnlyOnPath ==
    [][ last'.op = "generate_report" =>
          LET args == last'.args
              result == last'.result
          IN  /\ args.output_path \in {None, ""} => written' = written
              /\ \A path \in DOMAIN written' :
                     (path \notin DOMAIN written \/ written'[path] # written[path])
                         => /\ path = args.output_path
                            /\ written'[path] = result.formatted_report
              /\ DOMAIN written \subseteq DOMAIN written'
              /\ (args.output_path = "/readonly/report.json"
                      /\ args.analysis_data # EmptyDict)
                     => /\ written' = written
                        /\ result.success = TRUE
                        /\ "error" \notin DOMAIN result
                        /\ result.formatted_report =
                               FormatReport(result.report, args.output_format)
                        /\ result.output_path = args.output_path
    ]_vars

\* a report on analysis data written to a path that cannot be created: the
\* call succeeded and no file exists
C17_Witness ==
    /\ last.op = "generate_report"
    /\ last.args.output_path = "/readonly/report.json"
    /\ Has(last.args.analysis_data, "gate_validation")
    /\ last.result.success = TRUE
    /\ written = EmptyDict

-----------------------------------------------------------------------------
(* Directory exclusion *)

\* one of the directories between the root and the file is named in the
\* exclusion set
InExcludedDir(file) == \E i \in DOMAIN file.dirs : file.dirs[i] \in ExcludedDirs

\* the paths of the repository files below an excluded directory
ExcludedPaths == { fs[i].path : i \in { k \in DOMAIN fs : InExcludedDir(fs[k]) } }

\* C18: no scan reads a file below a directory named in the exclusion set,
\* at any depth: a gate validation counts in files_analyzed only the
\* admitted files outside the excluded directories and holds no evidence of
\* a file inside them, at every scan depth; a code scan hands no file inside
\* them to its file scanners and reports no finding of such a file.
C18_ExcludedNeverScanned ==
    /\ (last.op = "validate_gates" /\ last.result.success)
           => \A i \in DOMAIN last.result.validation_results :
                  LET gate == last.result.validation_results[i]
                      admitted ==
                          { k \in DOMAIN fs :
                              /\ ~InExcludedDir(fs[k])
                              /\ ShouldAnalyzeFile(fs[k], last.args.scan_depth) }
                  IN  gate.status # "ERROR"
                          => /\ gate.files_analyzed = Cardinality(admitted)
                             /\ \A e \in DOMAIN gate.evidence :
                                    gate.evidence[e].file \notin ExcludedPaths
    /\ (last.op = "scan_code" /\ last.result.success
            /\ Has(last.result.scan_results, "vulnerabilities"))
           => LET read == FilesToScan(last.args.repository_path)
                  found == last.result.scan_results["vulnerabilities"].vulnerabilities
                               \o last.result.scan_results["secrets"].secrets
              IN  /\ \A k \in DOMAIN read : read[k].path \notin ExcludedPaths
                  /\ \A k \in DOMAIN found : found[k].file \notin ExcludedPaths

-----------------------------------------------------------------------------
(* File filter of the gate scan *)

\* C19: a gate validation analyzes, of the files outside the excluded
\* directories, at depth basic those with a primary-language source
\* extension, at depth comprehensive those with a language extension or one
\* of .json, .yaml, .yml, .toml, .xml, .properties, .conf, .config and .env,
\* and at depth deep every file; a file admitted at basic is admitted at
\* comprehensive, and one admitted at comprehensive at deep.
C19_FilterByDepth ==
    (last.op = "validate_gates" /\ last.result.success
         /\ last.args.repository_path = RepoRoot)
        => LET languages == {".py", ".js", ".ts", ".java", ".go", ".rs", ".cpp",
                             ".c", ".cs"}
               more_languages == {".php", ".rb", ".scala", ".kt", ".swift"}
               config == {".json", ".yaml", ".yml", ".toml", ".xml", ".properties",
                          ".conf", ".config", ".env"}
               Admits(file) ==
                   CASE last.args.scan_depth = "basic" -> file.ext \in languages
                     [] last.args.scan_depth = "comprehensive" ->
                            file.ext \in languages \cup more_languages \cup config
                     [] OTHER -> TRUE
               admitted ==
                   { k \in DOMAIN fs :
                       /\ \A d \in DOMAIN fs[k].dirs : fs[k].dirs[d] \notin ExcludedDirs
                       /\ Admits(fs[k]) }
           IN  /\ \A i \in DOMAIN last.result.validation_results :
                      LET gate == last.result.validation_results[i]
                      IN  gate.status # "ERROR"
                              => gate.files_analyzed = Cardinality(admitted)
               /\ \A k \in DOMAIN fs :
                      /\ ShouldAnalyzeFile(fs[k], "basic")
                             => ShouldAnalyzeFile(fs[k], "comprehensive")
                      /\ ShouldAnalyzeFile(fs[k], "comprehensive")
                             => ShouldAnalyzeFile(fs[k], "deep")

-----------------------------------------------------------------------------
(* Secrets scan of a single password line *)

\* C20: a secrets scan of a repository whose only file is a scannable file
\* with the single line password = "abc123xyz" returns exactly one secret
\* finding, of severity High, and risk_level "High".
C20_OneSecretFound ==
    (/\ last.op = "scan_code"
     /\ last.args.scan_type = "secrets"
     /\ last.args.repository_path = RepoRoot
     /\ Len(fs) = 1
     /\ fs[1].readable
     /\ fs[1].dirs = << >>
     /\ ShouldScanFile(fs[1])
     /\ fs[1].lines = << "password = \"abc123xyz\"" >>)
        => /\ last.result.success
           /\ last.result.scan_results["secrets"].total_secrets = 1
           /\ Len(last.result.scan_results["secrets"].secrets) = 1
           /\ \A i \in DOMAIN last.result.scan_results["secrets"].secrets :
                  last.result.scan_results["secrets"].secrets[i].severity = "High"
           /\ last.result.scan_results["secrets"].risk_level = "High"

-----------------------------------------------------------------------------
(* A file that cannot be read *)

\* a validation of a repository whose only file is a candidate at the
\* requested depth and cannot be read
IsUnreadableOnlyRun ==
    /\ last.op = "validate_gates"
    /\ last.args.repository_path = RepoRoot
    /\ last.args.gates.iterable
    /\ Len(fs) = 1
    /\ ~fs[1].readable
    /\ \A d \in DOMAIN fs[1].dirs : fs[1].dirs[d] \notin ExcludedDirs
    /\ ShouldAnalyzeFile(fs[1], last.args.scan_depth)

\* C21 as stated: every gate of such a validation has status NOT_APPLICABLE,
\* score 0 and no evidence.
C21_UnreadableNotApplicable ==
    IsUnreadableOnlyRun =>
        /\ last.result.success
        /\ \A i \in DOMAIN last.result.validation_results :
               LET gate == last.result.validation_results[i]
               IN  IsStr(gate.gate_name) =>
                       /\ gate.status = "NOT_APPLICABLE"
                       /\ gate.score = R0
                       /\ gate.patterns_found = 0
                       /\ gate.evidence = << >>

\* C21: the run succeeds with one result per gate; every gate other than
\* AVOID_LOGGING_SECRETS has status NOT_APPLICABLE, score 0 and no evidence;
\* AVOID_LOGGING_SECRETS, scored inversely on the one file counted as
\* analyzed, has status PASS, score 100 and no evidence.
C21_UnreadableSkipped ==
    IsUnreadableOnlyRun =>
        /\ last.result.success
        /\ Len(last.result.validation_results) = Len(last.result.gates_validated)
        /\ \A i \in DOMAIN last.result.validation_results :
               LET gate == last.result.validation_results[i]
               IN  IsStr(gate.gate_name) =>
                       /\ gate.patterns_found = 0
                       /\ gate.evidence = << >>
                       /\ gate.files_analyzed = 1
                       /\ gate.gate_name # "AVOID_LOGGING_SECRETS" =>
                              gate.status = "NOT_APPLICABLE" /\ gate.score = R0
                       /\ gate.gate_name = "AVOID_LOGGING_SECRETS" =>
                              gate.status = "PASS" /\ gate.score = R100

\* the default gates on the repository that holds only the unreadable
\* blob.py: STRUCTURED_LOGS is not applicable, AVOID_LOGGING_SECRETS passes
C21_Witness ==
    /\ IsUnreadableOnlyRun
    /\ last.args.gates = GateList(<< >>)
    /\ \E i, j \in DOMAIN last.result.validation_results :
           /\ last.result.validation_results[i].gate_name = "STRUCTURED_LOGS"
           /\ last.result.validation_results[i].status = "NOT_APPLICABLE"
           /\ last.result.validation_results[j].gate_name = "AVOID_LOGGING_SECRETS"
           /\ last.result.validation_results[j].status = "PASS"

-----------------------------------------------------------------------------
(* Severity breakdown *)

\* C22: the severity breakdown of a list of findings counts, for High,
\* Medium and Low, the findings of that severity; the counts are
\* non-negative integers and sum to the reported total, the length of the
\* list.
C22_BreakdownSumsToTotal ==
    last.op = "_get_severity_breakdown" =>
        LET Of(severity) ==
                Cardinality({ i \in DOMAIN last.issues :
                                last.issues[i].severity = severity })
        IN  /\ DOMAIN last.result = {"High", "Medium", "Low"}
            /\ \A severity \in DOMAIN last.result :
                   /\ last.result[severity] \in Nat
                   /\ last.result[severity] = Of(severity)
            /\ last.result.High + last.result.Medium + last.result.Low = last.total

\* four findings: two High, one Medium, one Low
C22_Witness ==
    /\ last.op = "_get_severity_breakdown"
    /\ last.total = 4
    /\ last.result = [High |-> 2, Medium |-> 1, Low |-> 1]

-----------------------------------------------------------------------------
(* Gate recommendations *)

IsRecommendationCall == last.op = "_generate_gate_recommendations"

\* the generic recommendations of a gate
GenericRecommendations(gate_name) ==
    << "Implement " \o ReplaceLower[gate_name] \o " patterns",
       "Follow enterprise security standards" >>

\* the recommendations depend on the gate and the evidence count alone, and
\* the gates with a rule of their own get different text for no evidence
\* and for some
RecommendationsByCount ==
    /\ ~last.result.raised
    /\ last.result =
           GenerateGateRecommendations(last.gate_name, last.patterns_found, << >>)
    /\ last.result =
           GenerateGateRecommendations(last.gate_name, last.patterns_found,
                                       << [file |-> "/repo/blob.py"] >>)
    /\ last.gate_name \in {"STRUCTURED_LOGS", "AVOID_LOGGING_SECRETS",
                           "AUTOMATED_TESTS", "AUTO_SCALE"}
           => /\ last.patterns_found > 0 =>
                     /\ last.result.value # << >>
                     /\ \A k \in DOMAIN last.result.value :
                            \A z \in DOMAIN GenerateGateRecommendations(
                                                last.gate_name, 0, << >>).value :
                                last.result.value[k] #
                                    GenerateGateRecommendations(
                                        last.gate_name, 0, << >>).value[z]
              /\ last.patterns_found = 0 =>
                     Len(last.result.value) > Len(GenericRecommendations(last.gate_name))

\* C23 as stated: the recommendations depend on the gate and the evidence
\* count alone, a gate without a rule of its own gets the generic
\* recommendations, and no gate gets an empty list.
C23_NeverEmpty ==
    IsRecommendationCall =>
        /\ RecommendationsByCount
        /\ last.gate_name \in {"AUTHENTICATION", "RETRY_LOGIC"}
               => last.result.value = GenericRecommendations(last.gate_name)
        /\ last.result.value # << >>

\* C23: the recommendations depend on the gate and the evidence count alone;
\* the generic recommendations end the list exactly when the evidence count
\* is 0, for every gate, so a gate without a rule of its own gets the
\* generic recommendations for no evidence and the empty list otherwise,
\* and no gate with a rule of its own gets an empty list.
C23_GenericWhenNoEvidence ==
    IsRecommendationCall =>
        LET value == last.result.value
            generic == GenericRecommendations(last.gate_name)
            own_rule == last.gate_name \in {"STRUCTURED_LOGS", "AVOID_LOGGING_SECRETS",
                                            "AUTOMATED_TESTS", "AUTO_SCALE"}
        IN  /\ RecommendationsByCount
            /\ last.patterns_found = 0 =>
                   /\ Len(value) >= 2
                   /\ SubSeq(value, Len(value) - 1, Len(value)) = generic
            /\ last.patterns_found > 0 =>
                   \A k \in DOMAIN value : value[k] \notin { generic[1], generic[2] }
            /\ ~own_rule => value = (IF last.patterns_found = 0 THEN generic ELSE << >>)
            /\ (value = << >>) <=> (~own_rule /\ last.patterns_found > 0)

\* AUTHENTICATION with two matches and a non-empty evidence list: no
\* recommendation
C23_Witness ==
    /\ IsRecommendationCall
    /\ last.gate_name = "AUTHENTICATION"
    /\ last.patterns_found = 2
    /\ last.evidence # << >>
    /\ last.result = Returned(<< >>)

-----------------------------------------------------------------------------
(* Visit order *)

\* the orders in which the items of a list can be arranged
RECURSIVE OrdersOf(_)
OrdersOf(items) ==
    IF items = << >> THEN { << >> }
    ELSE UNION { { << items[i] >> \o rest :
                     rest \in OrdersOf(SubSeq(items, 1, i - 1)
                                           \o SubSeq(items, i + 1, Len(items))) } :
                 i \in { k \in DOMAIN items : \A j \in 1..(k - 1) : items[j] # items[k] } }

\* two lists hold the same items the same number of times
SameItems(a, b) ==
    /\ Len(a) = Len(b)
    /\ \A x \in { a[i] : i \in DOMAIN a } \cup { b[i] : i \in DOMAIN b } :
           Cardinality({ i \in DOMAIN a : a[i] = x })
               = Cardinality({ i \in DOMAIN b : b[i] = x })

-----------------------------------------------------------------------------
(* Frame of the report generation *)

\* C25: a report generation of any of the four report types leaves the
\* analysis data it was given as it was: every stage result, with each
\* compliance gap record, has the fields and values it had before the call.
C25_ReportLeavesDataUnchanged ==
    [][ (last'.op = "generate_report"
             /\ last'.args.report_type \in {"comprehensive", "executive", "technical",
                                            "compliance"})
            => analysis_data' = analysis_data ]_vars

-----------------------------------------------------------------------------
(* Severity buckets of the scan summary *)

\* C26: in the summary of a code scan of any scan type the three severity
\* counts sum to total_issues.
C26_BucketsSumToTotal ==
    (last.op = "scan_code" /\ last.result.success)
        => last.result.summary.high_severity + last.result.summary.medium_severity
               + last.result.summary.low_severity
           = last.result.summary.total_issues

-----------------------------------------------------------------------------
(* No evidence over analyzed files *)

\* C27: a gate with no evidence over at least one analyzed file has score 0
\* and status NOT_APPLICABLE, except AVOID_LOGGING_SECRETS, which has score
\* 100 and status PASS; a gate with status NOT_APPLICABLE has no evidence.
C27_NoEvidenceStatus ==
    IsScoreCall =>
        /\ (last.patterns_found = 0 /\ last.files_analyzed >= 1)
               => IF last.gate_name = "AVOID_LOGGING_SECRETS"
                  THEN last.score = R100 /\ last.status = "PASS"
                  ELSE last.score = R0 /\ last.status = "NOT_APPLICABLE"
        /\ last.status = "NOT_APPLICABLE" => last.patterns_found = 0

\* AVOID_LOGGING_SECRETS with no evidence over two files: not NOT_APPLICABLE
C27_Witness ==
    /\ IsScoreCall
    /\ last.gate_name = "AVOID_LOGGING_SECRETS"
    /\ last.patterns_found = 0
    /\ last.files_analyzed = 2
    /\ last.status = "PASS"

-----------------------------------------------------------------------------
(* Gates without pattern rules *)

GatesWithoutRules == {"AUTHENTICATION", "AUTHORIZATION", "ERROR_HANDLING"}

\* C28: the gate validator never gives AUTHENTICATION, AUTHORIZATION or
\* ERROR_HANDLING the status PASS: they score 0; a compliance check of
\* analysis data whose gate results the validator produced gives SOC2,
\* ISO27001 and NIST an overall score below 80 and the status
\* Non-Compliant, and over the four frameworks its overall status is not
\* "Fully Compliant".
C28_NoRuleNeverPasses ==
    /\ (last.op = "validate_gates" /\ last.result.success)
           => \A i \in DOMAIN last.result.validation_results :
                  LET gate == last.result.validation_results[i]
                  IN  gate.gate_name \in GatesWithoutRules
                          => gate.status # "PASS" /\ gate.score = R0
    /\ (IsComplianceCheck /\ Has(last.args.analysis_data, "gate_validation"))
           => /\ \A i \in DOMAIN last.args.frameworks :
                     last.args.frameworks[i] \in {"SOC2", "ISO27001", "NIST"}
                         => /\ RGt(FromInt(80),
                                   FrameworkOf(last.args.frameworks[i]).overall_score)
                            /\ FrameworkOf(last.args.frameworks[i]).compliance_status
                                   = "Non-Compliant"
              /\ last.args.frameworks = DefaultFrameworks
                     => last.result.compliance_summary.overall_compliance_status
                            # "Fully Compliant"

\* a compliance check after a validation that asked for the three gates on
\* a repository with a logging call: STRUCTURED_LOGS passed, CC7.1 is
\* Compliant, CC6.1 is not assessed and SOC2 is Non-Compliant
C28_Witness ==
    /\ IsComplianceCheck
    /\ last.args.frameworks = DefaultFrameworks
    /\ Has(last.args.analysis_data, "gate_validation")
    /\ \E i, j \in DOMAIN CheckedGates :
           /\ CheckedGates[i].gate_name = "AUTHENTICATION"
           /\ CheckedGates[i].status = "NOT_APPLICABLE"
           /\ CheckedGates[i].files_analyzed > 0
           /\ CheckedGates[j].gate_name = "STRUCTURED_LOGS"
           /\ CheckedGates[j].status = "PASS"
    /\ FrameworkOf("SOC2").controls[4].control_id = "CC7.1"
    /\ FrameworkOf("SOC2").controls[4].status = "Compliant"
    /\ FrameworkOf("SOC2").controls[1].status = "Not Assessed"
    /\ FrameworkOf("SOC2").compliance_status = "Non-Compliant"

-----------------------------------------------------------------------------
(* Counting files that could not be read *)

\* C29: in every gate result of a validation, files_analyzed is the number
\* of files outside the excluded directories that pass the depth filter,
\* readable or not, and patterns_found is the length of the evidence list;
\* compared with the scan of the readable files alone, a file that could not
\* be read adds 1 to files_analyzed and nothing to patterns_found, so a gate
\* scored on the ratio never scores higher, and scores lower unless the
\* score is capped at 100 or there is no evidence, while
\* AVOID_LOGGING_SECRETS never scores lower, and scores higher unless the
\* score stays 0 or stays 100.
C29_UnreadableCounted ==
    (last.op = "validate_gates" /\ last.args.repository_path = RepoRoot
         /\ last.result.success)
        => \A i \in DOMAIN last.result.validation_results :
               LET gate == last.result.validation_results[i]
                   walked == Walk(RepoRoot, ExcludedDirs)
                   candidates ==
                       { k \in DOMAIN walked :
                           ShouldAnalyzeFile(walked[k], last.args.scan_depth) }
                   unreadable == { k \in candidates : ~walked[k].readable }
                   read ==
                       ScanFiles(SelectSeq(walked, LAMBDA file : file.readable), 1,
                                 GetGatePatterns(gate.gate_name), last.args.scan_depth,
                                 [evidence |-> << >>, patterns_found |-> 0,
                                  files_analyzed |-> 0])
                   read_score ==
                       CalculateGateScore(read.patterns_found, read.files_analyzed,
                                          gate.gate_name)
               IN  IsStr(gate.gate_name) =>
                       /\ gate.files_analyzed = Cardinality(candidates)
                       /\ gate.patterns_found = Len(gate.evidence)
                       /\ gate.files_analyzed
                              = read.files_analyzed + Cardinality(unreadable)
                       /\ gate.patterns_found = read.patterns_found
                       /\ unreadable # {} =>
                              IF gate.gate_name = "AVOID_LOGGING_SECRETS"
                              THEN /\ RGe(gate.score, read_score)
                                   /\ (gate.score # read_score)
                                          <=> (read.files_analyzed = 0
                                                   \/ (gate.patterns_found > 0
                                                           /\ gate.score # R0))
                              ELSE /\ RGe(read_score, gate.score)
                                   /\ (gate.score # read_score)
                                          <=> (gate.patterns_found > 0
                                                   /\ gate.score # R100)

\* a logging call in app.py next to the unreadable blob.py: STRUCTURED_LOGS
\* scores 1/2 * 100 * 1.5 = 75 instead of 100
C29_Witness ==
    /\ last.op = "validate_gates"
    /\ last.args.repository_path = RepoRoot
    /\ last.result.success
    /\ \E k \in DOMAIN fs : fs[k].path = "/repo/blob.py"
    /\ \E i \in DOMAIN last.result.validation_results :
           /\ last.result.validation_results[i].gate_name = "STRUCTURED_LOGS"
           /\ last.result.validation_results[i].files_analyzed = 2
           /\ last.result.validation_results[i].patterns_found = 1
           /\ last.result.validation_results[i].score = FromInt(75)
           /\ last.result.validation_results[i].status = "WARNING"

-----------------------------------------------------------------------------
(* Compliance summary over requested frameworks *)

\* C30: the summary of a compliance check counts every requested framework
\* once, as compliant or as non-compliant; a framework the tool does not
\* support yields a failure record, does not abort the check and counts as
\* non-compliant with score 0; the overall status is "Fully Compliant"
\* exactly when no framework is non-compliant (also when none was
\* requested), "Partially Compliant" exactly when both counts are positive,
\* and "Non-Compliant" exactly when no framework is compliant and at least
\* one was requested.
C30_SummaryCounts ==
    IsComplianceCheck =>
        LET summary == last.result.compliance_summary
            requested == { last.args.frameworks[i] : i \in DOMAIN last.args.frameworks }
            supported == requested \cap {"SOC2", "ISO27001", "NIST", "Enterprise"}
            compliant ==
                { framework \in supported :
                    FrameworkOf(framework).compliance_status = "Compliant" }
            scores ==
                [ i \in DOMAIN last.result.compliance_results.keys |->
                    LET framework == last.result.compliance_results.keys[i]
                    IN  IF framework \in supported
                        THEN FrameworkOf(framework).overall_score ELSE R0 ]
        IN  /\ summary.total_frameworks = Cardinality(requested)
            /\ summary.compliant_frameworks = Cardinality(compliant)
            /\ summary.compliant_frameworks + summary.non_compliant_frameworks
                   = summary.total_frameworks
            /\ \A framework \in requested \ supported :
                   /\ FrameworkOf(framework).success = FALSE
                   /\ DOMAIN FrameworkOf(framework) = {"success", "error"}
            /\ summary.non_compliant_frameworks >= Cardinality(requested \ supported)
            /\ summary.average_compliance_score =
                   (IF requested = {} THEN R0
                    ELSE Round2(RDiv(RSum(scores, 1, LAMBDA score : score),
                                     FromInt(Cardinality(requested)))))
            /\ (summary.overall_compliance_status = "Fully Compliant")
                   <=> summary.non_compliant_frameworks = 0
            /\ (summary.overall_compliance_status = "Partially Compliant")
                   <=> (summary.compliant_frameworks > 0
                            /\ summary.non_compliant_frameworks > 0)
            /\ (summary.overall_compliance_status = "Non-Compliant")
                   <=> (summary.compliant_frameworks = 0 /\ summary.total_frameworks > 0)

\* SOC2 and an unsupported framework on data with every gate passed and a
\* low risk level: SOC2 is Compliant, HIPAA counts as non-compliant and the
\* check is "Partially Compliant" with an average of 50
C30_Witness ==
    /\ IsComplianceCheck
    /\ last.args.frameworks = << "SOC2", "HIPAA" >>
    /\ FrameworkOf("SOC2").compliance_status = "Compliant"
    /\ last.result.compliance_summary.compliant_frameworks = 1
    /\ last.result.compliance_summary.non_compliant_frameworks = 1
    /\ last.result.compliance_summary.average_compliance_score = FromInt(50)
    /\ last.result.compliance_summary.overall_compliance_status = "Partially Compliant"

=============================================================================
